---- MODULE Spec2Model ----
(***************************************************************************)
(* Model of the audit edge function (supabase/functions/audit-with-chatgpt) *)
(* : unit normalisation and conversion, threshold resolution, the          *)
(* deterministic "Indiamart" classifier, the advisory LLM call and the     *)
(* batch loops of the gateway (Promise.all) and worker-pool variants.      *)
(*                                                                         *)
(* Strings the code transforms (units, segment labels) are sequences of    *)
(* one-character strings, so that toLowerCase() and trim() are computed.   *)
(* JavaScript numbers are exact rationals [t, n, d]; null, undefined and   *)
(* NaN are separate values with the coercions of the language.             *)
(***************************************************************************)
EXTENDS Integers, Sequences, FiniteSets, TLC

\* ------------------------------------------------------------------ bounds
MaxRecords == 4
batchSize == 3
concurrencyLimit == 2
MaxEntries == 3
cacheLimit == 2
MaxSessions == 2

\* ------------------------------------------------------ program constants
retries == 2

\* ------------------------------------------------------------ JS strings
UpperChars == <<"A","B","C","D","E","F","G","H","I","J","K","L","M",
                "N","O","P","Q","R","S","T","U","V","W","X","Y","Z">>
LowerChars == <<"a","b","c","d","e","f","g","h","i","j","k","l","m",
                "n","o","p","q","r","s","t","u","v","w","x","y","z">>

LowerChar(c) ==
  IF \E i \in DOMAIN UpperChars : UpperChars[i] = c
  THEN LowerChars[CHOOSE i \in DOMAIN UpperChars : UpperChars[i] = c]
  ELSE c

toLowerCase(s) == [i \in DOMAIN s |-> LowerChar(s[i])]

RECURSIVE trimStart(_)
trimStart(s) ==
  IF s # <<>> /\ Head(s) = " " THEN trimStart(Tail(s)) ELSE s

RECURSIVE trimEnd(_)
trimEnd(s) ==
  IF s # <<>> /\ s[Len(s)] = " " THEN trimEnd(SubSeq(s, 1, Len(s) - 1)) ELSE s

trim(s) == trimEnd(trimStart(s))

\* a missing / null string field of the JSON body
NoString == <<"\\null">>

\* a JSON number where a string is expected: it is truthy and has no
\* toLowerCase, so calling toLowerCase on it throws a TypeError
NonString == <<"\\number">>

\* ------------------------------------------------------------ JS numbers
RECURSIVE Gcd(_, _)
Gcd(a, b) == IF b = 0 THEN a ELSE Gcd(b, a % b)

Abs(x) == IF x < 0 THEN -x ELSE x

Num(n, d) ==
  LET g == Gcd(Abs(n), d)
  IN  [t |-> "num", n |-> n \div g, d |-> d \div g]

JsNull == [t |-> "null", n |-> 0, d |-> 1]
JsUndefined == [t |-> "undefined", n |-> 0, d |-> 1]
JsNaN == [t |-> "NaN", n |-> 0, d |-> 1]

ToNumber(v) ==
  CASE v.t = "num" -> v
    [] v.t = "null" -> Num(0, 1)
    [] OTHER -> JsNaN

\* value * factor, reduced before multiplying
JsMul(a, b) ==
  LET x == ToNumber(a)
      y == ToNumber(b)
      g1 == Gcd(Abs(x.n), y.d)
      g2 == Gcd(Abs(y.n), x.d)
  IN  IF x.t = "NaN" \/ y.t = "NaN" THEN JsNaN
      ELSE Num((x.n \div g1) * (y.n \div g2), (x.d \div g2) * (y.d \div g1))

\* value / factor (factors are never zero)
JsDiv(a, b) ==
  LET x == ToNumber(a)
      y == ToNumber(b)
      g1 == Gcd(Abs(x.n), Abs(y.n))
      g2 == Gcd(y.d, x.d)
  IN  IF x.t = "NaN" \/ y.t = "NaN" THEN JsNaN
      ELSE Num((x.n \div g1) * (y.d \div g2), (x.d \div g2) * (y.n \div g1))

\* the comparison written with < instead of <=
JsLessThan(a, b) ==
  LET x == ToNumber(a)
      y == ToNumber(b)
  IN  IF x.t = "NaN" \/ y.t = "NaN" THEN FALSE
      ELSE x.n * y.d < y.n * x.d

\* a <= b with the abstract relational comparison of the language
JsLessEq(a, b) ==
  LET x == ToNumber(a)
      y == ToNumber(b)
  IN  IF x.t = "NaN" \/ y.t = "NaN" THEN FALSE
      ELSE x.n * y.d <= y.n * x.d

\* Number.prototype.toFixed(2): hundredths, rounded half up; calling it on
\* a value that is not a number throws a TypeError
toFixedThrows(v) == v.t \in {"null", "undefined"}

NoFixed == [text |-> "", hundredths |-> 0]

toFixed2(v) ==
  IF v.t = "NaN" THEN [text |-> "NaN", hundredths |-> 0]
  ELSE [text |-> "fixed", hundredths |-> (200 * v.n + v.d) \div (2 * v.d)]

\* ------------------------------------------------------------------ units
u_mg == <<"m","g">>
u_g == <<"g">>
u_kg == <<"k","g">>
u_tonne == <<"t","o","n","n","e">>
u_lbs == <<"l","b","s">>
u_lb == <<"l","b">>
u_oz == <<"o","z">>
u_ounce == <<"o","u","n","c","e">>
u_ml == <<"m","l">>
u_l == <<"l">>
u_liter == <<"l","i","t","e","r">>
u_litre == <<"l","i","t","r","e">>
u_gallon == <<"g","a","l","l","o","n">>
u_pint == <<"p","i","n","t">>
u_cc == <<"c","c">>
u_mm == <<"m","m">>
u_cm == <<"c","m">>
u_m == <<"m">>
u_km == <<"k","m">>
u_inch == <<"i","n","c","h">>
u_foot == <<"f","o","o","t">>
u_yard == <<"y","a","r","d">>
u_mile == <<"m","i","l","e">>
u_piece == <<"p","i","e","c","e">>
u_pieces == <<"p","i","e","c","e","s">>
u_unit == <<"u","n","i","t">>
u_units == <<"u","n","i","t","s">>
u_dozen == <<"d","o","z","e","n">>
u_count == <<"c","o","u","n","t">>

weightUnits == {u_mg, u_g, u_kg, u_tonne, u_lbs, u_lb, u_oz, u_ounce}
volumeUnits == {u_ml, u_l, u_liter, u_litre, u_gallon, u_pint, u_cc}
lengthUnits == {u_mm, u_cm, u_m, u_km, u_inch, u_foot, u_yard, u_mile}
countUnits == {u_piece, u_pieces, u_unit, u_units, u_dozen, u_count}

\* normalizeUnit of the gateway variant: "" for a missing unit, else
\* lower-cased and trimmed
normalizeUnit(unit) ==
  IF unit = NoString \/ unit = <<>> THEN <<>>
  ELSE trim(toLowerCase(unit))

NoCategory == "none"

getUnitCategory(unit) ==
  LET normalized == normalizeUnit(unit)
  IN  CASE normalized \in weightUnits -> "weight"
        [] normalized \in volumeUnits -> "volume"
        [] normalized \in lengthUnits -> "length"
        [] normalized \in countUnits -> "count"
        [] OTHER -> NoCategory

weightConversions ==
  [u \in weightUnits |->
     CASE u = u_mg -> Num(1, 1000)
       [] u = u_g -> Num(1, 1)
       [] u = u_kg -> Num(1000, 1)
       [] u = u_tonne -> Num(1000000, 1)
       [] u \in {u_lbs, u_lb} -> Num(453592, 1000)
       [] OTHER -> Num(283495, 10000)]

volumeConversions ==
  [u \in volumeUnits |->
     CASE u \in {u_ml, u_cc} -> Num(1, 1)
       [] u \in {u_l, u_liter, u_litre} -> Num(1000, 1)
       [] u = u_gallon -> Num(378541, 100)
       [] OTHER -> Num(473176, 1000)]

lengthConversions ==
  [u \in lengthUnits |->
     CASE u = u_mm -> Num(1, 1)
       [] u = u_cm -> Num(10, 1)
       [] u = u_m -> Num(1000, 1)
       [] u = u_km -> Num(1000000, 1)
       [] u = u_inch -> Num(254, 10)
       [] u = u_foot -> Num(3048, 10)
       [] u = u_yard -> Num(9144, 10)
       [] OTHER -> Num(1609344, 1)]

countConversions ==
  [u \in countUnits |-> IF u = u_dozen THEN Num(12, 1) ELSE Num(1, 1)]

\* the conversion to the base unit only, without the division by toFactor
convertUnitNoDivide(value, fromUnit, toUnit) ==
  LET from == normalizeUnit(fromUnit)
      to == normalizeUnit(toUnit)
      fromCategory == getUnitCategory(from)
      toCategory == getUnitCategory(to)
      conversions ==
        CASE fromCategory = "weight" -> weightConversions
          [] fromCategory = "volume" -> volumeConversions
          [] fromCategory = "length" -> lengthConversions
          [] OTHER -> countConversions
      fromFactor == IF from \in DOMAIN conversions THEN conversions[from] ELSE Num(1, 1)
      toFactor == IF to \in DOMAIN conversions THEN conversions[to] ELSE Num(1, 1)
  IN  IF from = to THEN value
      ELSE IF fromCategory = NoCategory \/ toCategory = NoCategory
              \/ fromCategory # toCategory
           THEN value
           ELSE JsMul(value, fromFactor)

\* the conversion without the test that the two categories are the same
convertUnitCrossDimension(value, fromUnit, toUnit) ==
  LET from == normalizeUnit(fromUnit)
      to == normalizeUnit(toUnit)
      fromCategory == getUnitCategory(from)
      toCategory == getUnitCategory(to)
      conversions ==
        CASE fromCategory = "weight" -> weightConversions
          [] fromCategory = "volume" -> volumeConversions
          [] fromCategory = "length" -> lengthConversions
          [] OTHER -> countConversions
      fromFactor == IF from \in DOMAIN conversions THEN conversions[from] ELSE Num(1, 1)
      toFactor == IF to \in DOMAIN conversions THEN conversions[to] ELSE Num(1, 1)
  IN  IF from = to THEN value
      ELSE IF fromCategory = NoCategory \/ toCategory = NoCategory
           THEN value
           ELSE JsDiv(JsMul(value, fromFactor), toFactor)

\* the conversion with the two factors exchanged
convertUnitInverted(value, fromUnit, toUnit) ==
  LET from == normalizeUnit(fromUnit)
      to == normalizeUnit(toUnit)
      fromCategory == getUnitCategory(from)
      toCategory == getUnitCategory(to)
      conversions ==
        CASE fromCategory = "weight" -> weightConversions
          [] fromCategory = "volume" -> volumeConversions
          [] fromCategory = "length" -> lengthConversions
          [] OTHER -> countConversions
      fromFactor == IF from \in DOMAIN conversions THEN conversions[from] ELSE Num(1, 1)
      toFactor == IF to \in DOMAIN conversions THEN conversions[to] ELSE Num(1, 1)
  IN  IF from = to THEN value
      ELSE IF fromCategory = NoCategory \/ toCategory = NoCategory
              \/ fromCategory # toCategory
           THEN value
           ELSE JsDiv(JsMul(value, toFactor), fromFactor)

\* lines 103-167
convertUnit(value, fromUnit, toUnit) ==
  LET from == normalizeUnit(fromUnit)
      to == normalizeUnit(toUnit)
      fromCategory == getUnitCategory(from)
      toCategory == getUnitCategory(to)
      conversions ==
        CASE fromCategory = "weight" -> weightConversions
          [] fromCategory = "volume" -> volumeConversions
          [] fromCategory = "length" -> lengthConversions
          [] OTHER -> countConversions
      fromFactor == IF from \in DOMAIN conversions THEN conversions[from] ELSE Num(1, 1)
      toFactor == IF to \in DOMAIN conversions THEN conversions[to] ELSE Num(1, 1)
  IN  IF from = to THEN value
      ELSE IF fromCategory = NoCategory \/ toCategory = NoCategory
              \/ fromCategory # toCategory
           THEN value
           ELSE JsDiv(JsMul(value, fromFactor), toFactor)

\* ------------------------------------------------------- threshold index
\* "no threshold" (null / undefined) as a value shaped like an entry
NoThreshold ==
  [fk_glcat_mcat_id |-> NoString, leap_retail_qty_cutoff |-> JsNull,
   gl_unit_name |-> NoString]

RECURSIVE entriesOf(_, _)
entriesOf(thresholdData, mcatId) ==
  IF thresholdData = <<>> THEN <<>>
  ELSE LET t == Head(thresholdData)
           rest == entriesOf(Tail(thresholdData), mcatId)
       IN  IF t.fk_glcat_mcat_id = mcatId
           THEN <<[threshold |-> t, unit |-> normalizeUnit(t.gl_unit_name)]>> \o rest
           ELSE rest

\* Map from category id to its entries, in the order of thresholdData
thresholdsByMcat(thresholdData) ==
  [mcatId \in {thresholdData[i].fk_glcat_mcat_id : i \in DOMAIN thresholdData} |->
     entriesOf(thresholdData, mcatId)]

FirstIndex(s, P(_)) == CHOOSE i \in DOMAIN s : P(s[i]) /\ \A j \in 1..(i - 1) : ~P(s[j])

\* the resolution that tries the dimensional category before the exact unit
findThresholdCategoryFirst(index, mcatId, auditUnit) ==
  IF mcatId \notin DOMAIN index \/ index[mcatId] = <<>> THEN NoThreshold
  ELSE LET thresholds == index[mcatId]
           normalizedAuditUnit == normalizeUnit(auditUnit)
           auditUnitCategory == getUnitCategory(auditUnit)
           Exact(e) == e.unit = normalizedAuditUnit
           SameCategory(e) == getUnitCategory(e.unit) = auditUnitCategory
       IN  IF auditUnitCategory # NoCategory
              /\ \E i \in DOMAIN thresholds : SameCategory(thresholds[i])
           THEN thresholds[FirstIndex(thresholds, SameCategory)].threshold
           ELSE IF \E i \in DOMAIN thresholds : Exact(thresholds[i])
                THEN thresholds[FirstIndex(thresholds, Exact)].threshold
                ELSE thresholds[1].threshold

\* lines 178-200: exact unit, then dimensional category, then first entry
findThreshold(index, mcatId, auditUnit) ==
  IF mcatId \notin DOMAIN index \/ index[mcatId] = <<>> THEN NoThreshold
  ELSE LET thresholds == index[mcatId]
           normalizedAuditUnit == normalizeUnit(auditUnit)
           auditUnitCategory == getUnitCategory(auditUnit)
           Exact(e) == e.unit = normalizedAuditUnit
           SameCategory(e) == getUnitCategory(e.unit) = auditUnitCategory
       IN  IF \E i \in DOMAIN thresholds : Exact(thresholds[i])
           THEN thresholds[FirstIndex(thresholds, Exact)].threshold
           ELSE IF auditUnitCategory # NoCategory
                   /\ \E i \in DOMAIN thresholds : SameCategory(thresholds[i])
                THEN thresholds[FirstIndex(thresholds, SameCategory)].threshold
                ELSE thresholds[1].threshold

\* lines 572-582: normalizeUnit of the worker-pool variant reads the
\* module-level unitNormalizationCache, a set of [key, value] entries
normalizeUnitCached(cache, unit) ==
  IF unit = NoString \/ unit = <<>> THEN <<>>
  ELSE IF \E e \in cache : e.key = unit
       THEN (CHOOSE e \in cache : e.key = unit).value
       ELSE trim(toLowerCase(unit))

\* the cache filled with the unit as it was given
cacheSetRaw(cache, unit) ==
  IF unit \in {NoString, NonString, <<>>} \/ \E e \in cache : e.key = unit THEN cache
  ELSE cache \cup {[key |-> unit, value |-> unit]}

\* lines 579-580: the cache after normalizeUnit(unit)
cacheSet(cache, unit) ==
  IF unit \in {NoString, NonString, <<>>} \/ \E e \in cache : e.key = unit THEN cache
  ELSE cache \cup {[key |-> unit, value |-> trim(toLowerCase(unit))]}

\* the cache after normalizeUnit(t.gl_unit_name) of every row, in order
RECURSIVE cacheAfterRows(_, _)
cacheAfterRows(cache, thresholdData) ==
  IF thresholdData = <<>> THEN cache
  ELSE cacheAfterRows(cacheSet(cache, Head(thresholdData).gl_unit_name), Tail(thresholdData))

\* composite key `${mcat}_${unit}` of the worker-pool variant
thresholdKey(cache, mcatId, unit) == mcatId \o <<"_">> \o normalizeUnitCached(cache, unit)

\* the key thresholdData.map computes for row k
keyOfRow(cache, thresholdData, k) ==
  thresholdKey(cacheAfterRows(cache, SubSeq(thresholdData, 1, k - 1)),
               thresholdData[k].fk_glcat_mcat_id, thresholdData[k].gl_unit_name)

lastWithKey(cache, thresholdData, key) ==
  thresholdData[CHOOSE k \in DOMAIN thresholdData :
                  /\ keyOfRow(cache, thresholdData, k) = key
                  /\ \A j \in DOMAIN thresholdData :
                       keyOfRow(cache, thresholdData, j) = key => j <= k]

\* lines 902-907, new Map(thresholdData.map(t => [key, t])): a later row
\* replaces an earlier row with the same key
thresholdMap(cache, thresholdData) ==
  [key \in {keyOfRow(cache, thresholdData, k) : k \in DOMAIN thresholdData} |->
     lastWithKey(cache, thresholdData, key)]

\* the Map before it is built
NoMap == [key \in {} |-> NoThreshold]

thresholdMapGet(map, key) == IF key \in DOMAIN map THEN map[key] ELSE NoThreshold

\* -------------------------------------------------- deterministic verdict
s_retail_indian == <<"r","e","t","a","i","l"," ","-"," ","i","n","d","i","a","n">>
s_retail_foreign == <<"r","e","t","a","i","l"," ","-"," ","f","o","r","e","i","g","n">>
RETAIL_SEGMENTS == {s_retail_indian, s_retail_foreign}

NA == [na |-> TRUE, cutoff |-> JsNull, unit |-> NoString]
formatThreshold(threshold) ==
  [na |-> FALSE, cutoff |-> threshold.leap_retail_qty_cutoff, unit |-> threshold.gl_unit_name]

EmptyReason ==
  [text |-> "", quantity |-> JsNull, unit |-> NoString, converted |-> NoFixed,
   cutoff |-> JsNull, thresholdUnit |-> NoString]

\* record.business_mcat_key || 0
businessKeyOf(record) ==
  IF record.business_mcat_key.t = "num" /\ record.business_mcat_key.n # 0
  THEN record.business_mcat_key ELSE Num(0, 1)

\* segment?.toLowerCase() === "retail - indian" || ... === "retail - foreign"
isMarkedRetail(segment) ==
  IF segment = NoString THEN FALSE ELSE toLowerCase(segment) \in RETAIL_SEGMENTS

Verdict(mcatType, outcome, available, thresholdValue, category, reason) ==
  [threw |-> FALSE,
   mcat_type |-> mcatType,
   indiamart_audit_outcome |-> outcome,
   threshold_available |-> available,
   threshold_value |-> thresholdValue,
   indiamart_category |-> category,
   indiamart_reason |-> reason]

\* the handler threw a TypeError before it produced a verdict
Threw == [Verdict("", "", FALSE, NA, "", EmptyReason) EXCEPT !.threw = TRUE]

\* the override branch taken only when a threshold exists
businessVerdictNeedsThreshold(markedAsRetail, thresholdAvailable, thresholdValue) ==
  IF ~thresholdAvailable
  THEN Verdict("Business MCAT", "ERROR", thresholdAvailable, NA,
               "Threshold Not Available", EmptyReason)
  ELSE IF markedAsRetail
  THEN Verdict("Business MCAT", "ERROR", thresholdAvailable, thresholdValue,
               "Retail Wrongly Marked", EmptyReason)
  ELSE Verdict("Business MCAT", "PASS", thresholdAvailable, thresholdValue,
               "Non-Retail Correctly Marked", EmptyReason)

\* lines 229-240: the branch taken when businessMcatKey === 1
businessVerdict(markedAsRetail, thresholdAvailable, thresholdValue) ==
  IF markedAsRetail
  THEN Verdict("Business MCAT", "ERROR", thresholdAvailable, thresholdValue,
               "Retail Wrongly Marked",
               [EmptyReason EXCEPT !.text = "Business MCAT Key = 1 requires Non-Retail classification, but system marked as Retail"])
  ELSE Verdict("Business MCAT", "PASS", thresholdAvailable, thresholdValue,
               "Non-Retail Correctly Marked", EmptyReason)

\* the missing-threshold branch that leaves the initial outcome and label
missingThresholdVerdictUnset(thresholdAvailable) ==
  Verdict("Standard MCAT", "PASS", thresholdAvailable, NA, "", EmptyReason)

\* lines 241-245: the branch taken when no threshold was found
missingThresholdVerdict(thresholdAvailable) ==
  Verdict("Standard MCAT", "ERROR", thresholdAvailable, NA,
          "Threshold Not Available",
          [EmptyReason EXCEPT !.text = "MCAT threshold not found in attached sheet - cannot perform threshold-based audit"])

\* lines 251-267: outcome, category and reason wording of the threshold branch
decisionTable(shouldBeRetail, markedAsRetail) ==
  IF shouldBeRetail /\ markedAsRetail
  THEN [outcome |-> "PASS", category |-> "Retail Correctly Marked",
        text |-> "Threshold-based evaluation: <= threshold"]
  ELSE IF ~shouldBeRetail /\ ~markedAsRetail
  THEN [outcome |-> "PASS", category |-> "Non-Retail Correctly Marked",
        text |-> "Threshold-based evaluation: > threshold"]
  ELSE IF shouldBeRetail /\ ~markedAsRetail
  THEN [outcome |-> "ERROR", category |-> "Non-Retail Wrongly Marked",
        text |-> "THRESHOLD VIOLATION: is within threshold but system marked as Non-Retail"]
  ELSE [outcome |-> "ERROR", category |-> "Retail Wrongly Marked",
        text |-> "THRESHOLD VIOLATION: exceeds threshold but system marked as Retail"]

\* lines 85-87, 178-182 and 211-213: findThreshold normalizes the unit of the
\* record when its category has entries, and the handler lower-cases the
\* segment; either throws on a value that is not a string
gatewayThrows(record, index) ==
  \/ record.quantity_unit = NonString /\ record.fk_glcat_mcat_id \in DOMAIN index
  \/ record.bl_segment = NonString

\* lines 572-579 and 638-644: processRecord normalizes the unit of the record
\* and lower-cases its segment
poolThrows(record) ==
  \/ record.quantity_unit = NonString
  \/ record.bl_segment = NonString

\* message of the TypeError
throwMessage(record) ==
  IF record.quantity_unit = NonString THEN "unit.toLowerCase is not a function"
  ELSE "record.bl_segment?.toLowerCase is not a function"

\* lines 209-268 of the gateway variant: the verdict the record handler
\* computes before it calls the LLM; every reason of the threshold branch
\* formats convertedQuantity.toFixed(2)
gatewayVerdict(record, index) ==
  LET businessMcatKey == businessKeyOf(record)
      threshold == findThreshold(index, record.fk_glcat_mcat_id, record.quantity_unit)
      thresholdAvailable == threshold # NoThreshold
      markedAsRetail == isMarkedRetail(record.bl_segment)
      thresholdValue == IF thresholdAvailable THEN formatThreshold(threshold) ELSE NA
      cutoff == IF thresholdAvailable THEN threshold.leap_retail_qty_cutoff ELSE Num(0, 1)
      quantity == record.quantity
      convertedQuantity == convertUnit(quantity, record.quantity_unit, threshold.gl_unit_name)
      shouldBeRetail == JsLessEq(convertedQuantity, cutoff)
      row == decisionTable(shouldBeRetail, markedAsRetail)
  IN  IF gatewayThrows(record, index) THEN Threw
      ELSE IF businessMcatKey = Num(1, 1)
      THEN businessVerdict(markedAsRetail, thresholdAvailable, thresholdValue)
      ELSE IF ~thresholdAvailable
      THEN missingThresholdVerdict(thresholdAvailable)
      ELSE IF toFixedThrows(convertedQuantity) THEN Threw
      ELSE Verdict("Standard MCAT", row.outcome, thresholdAvailable, thresholdValue,
                   row.category,
                   [text |-> row.text, quantity |-> quantity, unit |-> record.quantity_unit,
                    converted |-> toFixed2(convertedQuantity), cutoff |-> cutoff,
                    thresholdUnit |-> threshold.gl_unit_name])

\* calculateIndiamartAudit of the worker-pool variant
calculateIndiamartAudit(record, businessMcatKey, threshold, thresholdAvailable, markedAsRetail) ==
  LET thresholdValue == IF thresholdAvailable THEN formatThreshold(threshold) ELSE NA
      quantity == record.quantity
      cutoff == threshold.leap_retail_qty_cutoff
      shouldBeRetail == JsLessEq(quantity, cutoff)
      reason(text) ==
        [text |-> text, quantity |-> quantity, unit |-> record.quantity_unit,
         converted |-> NoFixed, cutoff |-> cutoff, thresholdUnit |-> threshold.gl_unit_name]
  IN  IF businessMcatKey = Num(1, 1)
      THEN IF markedAsRetail
           THEN Verdict("Business MCAT", "ERROR", thresholdAvailable, thresholdValue,
                        "Retail Wrongly Marked",
                        [EmptyReason EXCEPT !.text = "Business MCAT Key = 1 requires Non-Retail classification, but system marked as Retail"])
           ELSE Verdict("Business MCAT", "PASS", thresholdAvailable, thresholdValue,
                        "Non-Retail Correctly Marked", EmptyReason)
      ELSE IF ~thresholdAvailable
      THEN Verdict("Standard MCAT", "ERROR", thresholdAvailable, NA,
                   "Threshold Not Available",
                   [EmptyReason EXCEPT !.text = "MCAT threshold not found in attached sheet - cannot perform threshold-based audit"])
      ELSE IF shouldBeRetail /\ markedAsRetail
      THEN Verdict("Standard MCAT", "PASS", thresholdAvailable, thresholdValue,
                   "Retail Correctly Marked", EmptyReason)
      ELSE IF ~shouldBeRetail /\ ~markedAsRetail
      THEN Verdict("Standard MCAT", "PASS", thresholdAvailable, thresholdValue,
                   "Non-Retail Correctly Marked", EmptyReason)
      ELSE IF shouldBeRetail /\ ~markedAsRetail
      THEN Verdict("Standard MCAT", "ERROR", thresholdAvailable, thresholdValue,
                   "Non-Retail Wrongly Marked",
                   reason("is within threshold but system marked as Non-Retail"))
      ELSE Verdict("Standard MCAT", "ERROR", thresholdAvailable, thresholdValue,
                   "Retail Wrongly Marked",
                   reason("exceeds threshold but system marked as Retail"))

\* lines 637-653 of processRecord: the verdict of the worker-pool variant
poolVerdict(record, map, cache) ==
  LET businessMcatKey == businessKeyOf(record)
      threshold == thresholdMapGet(map, thresholdKey(cache, record.fk_glcat_mcat_id, record.quantity_unit))
      thresholdAvailable == threshold # NoThreshold
      markedAsRetail == isMarkedRetail(record.bl_segment)
  IN  IF poolThrows(record) THEN Threw
      ELSE calculateIndiamartAudit(record, businessMcatKey, threshold, thresholdAvailable,
                                   markedAsRetail)

\* ------------------------------------------------------------ LLM replies
\* What the LLM collaborator does with one call: the transport fails, the
\* call times out, a non-2xx status comes back, or a 2xx body whose
\* choices[0].message.content is absent, not JSON, JSON inside a ``` fence,
\* the JSON value null, or a JSON object.
Reply(kind, status, body, blType, thresholdValue, reasoning) ==
  [kind |-> kind, status |-> status, body |-> body, bl_type |-> blType,
   threshold_value |-> thresholdValue, reasoning |-> reasoning]

TransportError == Reply("transport", 0, "", "", "", "")
Timeout == Reply("timeout", 0, "", "", "", "")
HttpStatus(status) == Reply("status", status, "", "", "", "")
NoChoices == Reply("ok", 200, "noChoices", "", "", "")
NotJson == Reply("ok", 200, "notJson", "", "", "")
JsonNull == Reply("ok", 200, "jsonNull", "", "", "")
JsonObject(blType, thresholdValue, reasoning) ==
  Reply("ok", 200, "object", blType, thresholdValue, reasoning)
FencedObject(blType, thresholdValue, reasoning) ==
  Reply("ok", 200, "fenced", blType, thresholdValue, reasoning)

\* message of the error fetch() rejects with
fetchMessage(reply) ==
  IF reply.kind = "timeout" THEN "The signal has been aborted" ELSE "fetch failed"

\* the advisory part of an AuditResult
Advisory(failed, message, blType, thresholdValue, reason) ==
  [failed |-> failed, message |-> message,
   llm_bl_type |-> blType, llm_threshold_value |-> thresholdValue,
   llm_threshold_reason |-> reason,
   evaluation_rationale |-> <<>>]

ReasonText(prefix, attempts, message) ==
  [prefix |-> prefix, attempts |-> attempts, message |-> message]

OrDefault(value, default) == IF value = "" THEN default ELSE value

\* lines 313-374 of the gateway variant: the message of the error thrown
\* inside the try block, "" when the reply is processed without an error
gatewayThrown(reply) ==
  CASE reply.kind \in {"transport", "timeout"} -> fetchMessage(reply)
    [] reply.kind = "status" /\ reply.status = 401 ->
         "Authentication failed: Invalid LLM_GATEWAY_KEY. Please check your API key format (should start with 'sk-')"
    [] reply.kind = "status" /\ reply.status = 404 ->
         "LLM Gateway endpoint not found. Please verify the base URL"
    [] reply.kind = "status" /\ reply.status = 429 ->
         "Rate limit exceeded for LLM Gateway"
    [] reply.kind = "status" -> "LLM Gateway error: status - errorText"
    [] reply.body = "noChoices" -> "Invalid response structure from LLM Gateway"
    [] reply.body \in {"notJson", "fenced"} -> "LLM response was not valid JSON"
    [] reply.body = "jsonNull" -> "Cannot read properties of null (reading 'bl_type')"
    [] OTHER -> ""

\* the catch block reporting a fixed text instead of error.message
gatewayAdvisoryNoMessage(reply) ==
  LET thrown == gatewayThrown(reply)
  IN  IF thrown # ""
      THEN Advisory(TRUE, thrown, "Error", "Error",
                    ReasonText("Error processing with AI", 0, ""))
      ELSE Advisory(FALSE, "", OrDefault(reply.bl_type, "Unknown"),
                    OrDefault(reply.threshold_value, "Not specified"),
                    ReasonText("", 0, OrDefault(reply.reasoning, "No reasoning provided")))

\* lines 427-472: the advisory fields of the success result and of the
\* result built by the catch block
gatewayAdvisory(reply) ==
  LET thrown == gatewayThrown(reply)
  IN  IF thrown # ""
      THEN Advisory(TRUE, thrown, "Error", "Error",
                    ReasonText("Error processing with AI: ", 0, thrown))
      ELSE Advisory(FALSE, "", OrDefault(reply.bl_type, "Unknown"),
                    OrDefault(reply.threshold_value, "Not specified"),
                    ReasonText("", 0, OrDefault(reply.reasoning, "No reasoning provided")))

\* lines 783-824 of getLLMAssessment: the message of the error one attempt
\* throws, "" when the attempt returns an assessment
attemptThrown(reply) ==
  CASE reply.kind \in {"transport", "timeout"} -> fetchMessage(reply)
    [] reply.kind = "status" -> "LLM API error: status"
    [] reply.body = "noChoices" -> "Cannot read properties of undefined (reading '0')"
    [] reply.body = "notJson" -> "Unexpected token in JSON"
    [] reply.body = "jsonNull" -> "Cannot read properties of null (reading 'bl_type')"
    [] OTHER -> ""

\* lines 820-824: the assessment a successful attempt returns
attemptAssessment(reply) ==
  Advisory(FALSE, "", OrDefault(reply.bl_type, "Unknown"),
           OrDefault(reply.threshold_value, "Not specified"),
           ReasonText("", 0, OrDefault(reply.reasoning, "No reasoning provided")))

\* the last failure answered with the defaults of a successful reply
exhaustedAssessmentUnknown(thrown) ==
  Advisory(TRUE, thrown, "Unknown", "Not specified",
           ReasonText("Error processing with AI after attempts: ", retries + 1, thrown))

\* lines 826-833: the assessment returned when the last attempt failed
exhaustedAssessment(thrown) ==
  Advisory(TRUE, thrown, "Error", "Error",
           ReasonText("Error processing with AI after attempts: ", retries + 1, thrown))

\* lines 376-425: the lines buildEvaluationRationale joins, for a reply
\* without evaluation_signals and conflict_notes; a line is written here
\* without the values it interpolates, except the status
statusWord(outcome) == IF outcome = "PASS" THEN "COMPLIANT" ELSE "VIOLATION"

precedenceLine(outcome) ==
  IF outcome = "PASS"
  THEN "Threshold-based verdict takes PRECEDENCE. Final outcome: COMPLIANT"
  ELSE "Threshold-based verdict takes PRECEDENCE. Final outcome: VIOLATION"

buildEvaluationRationale(record, verdict) ==
  LET outcome == verdict.indiamart_audit_outcome
  IN  <<"EVALUATION SUMMARY FOR", "">>
      \o (IF businessKeyOf(record) = Num(1, 1)
          THEN <<"PRIMARY SIGNAL: Business MCAT Key = 1", statusWord(outcome), "Reason:">>
          ELSE IF ~verdict.threshold_available
          THEN <<"PRIMARY SIGNAL: Threshold Not Available", outcome, "Reason:">>
          ELSE <<"EVALUATION PRIORITY HIERARCHY:", "1. BINDING THRESHOLD SIGNAL:",
                 "   - Quantity:", "   - Threshold:", statusWord(outcome), "",
                 "2. SUPPORTING SIGNALS (Advisory Only):", "",
                 "CONFLICT RESOLUTION:", precedenceLine(outcome)>>)
      \o <<"", "LLM INDEPENDENT ASSESSMENT:", "LLM Suggested Threshold:">>

\* lines 445 and 470: evaluation_rationale of the success result and of the
\* result built by the catch block
gatewayRationale(record, verdict, reply) ==
  IF gatewayThrown(reply) # "" THEN <<"Error during LLM evaluation:", gatewayThrown(reply)>>
  ELSE buildEvaluationRationale(record, verdict)

\* the result whose outcome follows the advisory type when the two disagree
AuditResultOverride(record, verdict, advisory) ==
  [raw_data_id |-> record.id,
   mcat_type |-> verdict.mcat_type,
   indiamart_audit_outcome |->
     IF advisory.llm_bl_type = "Retail" THEN "PASS" ELSE verdict.indiamart_audit_outcome,
   threshold_available |-> verdict.threshold_available,
   threshold_value |-> verdict.threshold_value,
   indiamart_category |-> verdict.indiamart_category,
   indiamart_reason |-> verdict.indiamart_reason,
   llm_bl_type |-> advisory.llm_bl_type,
   llm_threshold_value |-> advisory.llm_threshold_value,
   llm_threshold_reason |-> advisory.llm_threshold_reason,
   evaluation_rationale |-> advisory.evaluation_rationale]

\* ----------------------------------------------------------- AuditResult
AuditResult(record, verdict, advisory) ==
  [raw_data_id |-> record.id,
   mcat_type |-> verdict.mcat_type,
   indiamart_audit_outcome |-> verdict.indiamart_audit_outcome,
   threshold_available |-> verdict.threshold_available,
   threshold_value |-> verdict.threshold_value,
   indiamart_category |-> verdict.indiamart_category,
   indiamart_reason |-> verdict.indiamart_reason,
   llm_bl_type |-> advisory.llm_bl_type,
   llm_threshold_value |-> advisory.llm_threshold_value,
   llm_threshold_reason |-> advisory.llm_threshold_reason,
   evaluation_rationale |-> advisory.evaluation_rationale]

\* lines 844-874: the result processBatch stores when processRecord rejected
createErrorResult(record, message) ==
  AuditResult(record,
              Verdict("Standard MCAT", "PASS", FALSE, NA, "", EmptyReason),
              Advisory(TRUE, message, "Error", "Error",
                       ReasonText("Error processing with AI: ", 0, message)))

NoResult ==
  AuditResult([id |-> 0], Verdict("", "", FALSE, NA, "", EmptyReason),
              Advisory(FALSE, "", "", "", ReasonText("", 0, "")))

\* ================================================================= state
VARIABLES
  variant,        \* "gateway" (Promise.all per batch) or "pool" (processBatch)
  keySet,         \* Deno.env.get("LLM_GATEWAY_KEY") is set
  request,        \* the parsed JSON body
  pc,             \* "received", "loop", "batch", "responded"
  i,              \* loop variable of the batch loop
  slots,          \* the promises / results array of the current batch
  activePromises, \* processBatch
  currentIndex,   \* processBatch
  resolved,       \* processBatch called resolve(results)
  inflight,       \* positions with an outstanding fetch()
  auditResults,   \* auditResults
  response,       \* the HTTP response
  classified,     \* history: positions whose verdict was computed
  llmIssued,      \* history: number of fetch() calls issued
  calls,          \* history: outcome of the advisory call of each position
  probe,          \* one record and one threshold table given to the classifiers
  unitNormalizationCache, \* module-level cache of the worker-pool variant
  thresholdMapOfRun,      \* thresholdMap built by the worker-pool handler
  app                     \* the App component and the audit_sessions table

vars == <<variant, keySet, request, pc, i, slots, activePromises, currentIndex,
          resolved, inflight, auditResults, response, classified, llmIssued,
          calls, probe, unitNormalizationCache, thresholdMapOfRun, app>>

runVars == <<variant, keySet, request, pc, i, slots, activePromises, currentIndex,
             resolved, inflight, auditResults, response, classified, llmIssued,
             calls, app>>

cacheVars == <<unitNormalizationCache, thresholdMapOfRun>>

\* ---------------------------------------------------------------- inputs
m1 == <<"m","1">>
m2 == <<"m","2">>
m3 == <<"m","3">>

seg_RetailIndian == <<"R","e","t","a","i","l"," ","-"," ","I","n","d","i","a","n">>
seg_RETAIL_FOREIGN == <<"R","E","T","A","I","L"," ","-"," ","F","O","R","E","I","G","N">>
seg_NonRetail == <<"N","o","n","-","R","e","t","a","i","l">>
seg_RetailIndianSpace == seg_RetailIndian \o <<" ">>

RawRecord(mcat, quantity, unit, segment, key) ==
  [id |-> 0, fk_glcat_mcat_id |-> mcat, quantity |-> quantity, quantity_unit |-> unit,
   bl_segment |-> segment, business_mcat_key |-> key]

ThresholdEntry(mcat, cutoff, unit) ==
  [fk_glcat_mcat_id |-> mcat, leap_retail_qty_cutoff |-> Num(cutoff, 1), gl_unit_name |-> unit]

\* the threshold sheet of the modelled runs
RunThresholds ==
  <<ThresholdEntry(m1, 10, <<"K","g">>), ThresholdEntry(m1, 100, u_piece)>>

\* the kinds of record of the modelled runs: within threshold, business
\* override, category without threshold, and a record whose quantity is
\* null in the JSON body
RunRecords ==
  {RawRecord(m1, Num(5, 1), u_kg, seg_RetailIndian, JsUndefined),
   RawRecord(m1, Num(5, 1), u_kg, seg_RetailIndian, Num(1, 1)),
   RawRecord(m2, Num(5, 1), u_kg, seg_NonRetail, JsUndefined),
   RawRecord(m1, JsNull, u_kg, seg_NonRetail, JsUndefined),
   RawRecord(m1, Num(5, 1), NonString, seg_RetailIndian, JsUndefined)}

\* every kind of reply, given to the runs of a single record
AllReplies ==
  {TransportError, HttpStatus(401), HttpStatus(404), HttpStatus(429), HttpStatus(500),
   NoChoices, NotJson, JsonNull,
   JsonObject("Retail", "10 kg", "typical consumer quantity"),
   JsonObject("Non-Retail", "", ""),
   JsonObject("", "", ""),
   JsonObject("Wholesale", "50 kg", "bulk order"),
   FencedObject("Retail", "10 kg", "typical consumer quantity")}

\* the replies given to the runs of several records
RunReplies ==
  {HttpStatus(500), NotJson, JsonObject("Retail", "10 kg", "typical consumer quantity")}

\* the replies given to the runs of three and more records
LongRunReplies ==
  {HttpStatus(500), JsonObject("Retail", "10 kg", "typical consumer quantity")}

Replies ==
  IF Len(request.rawData.rows) <= 1 THEN AllReplies
  ELSE IF Len(request.rawData.rows) <= 2 THEN RunReplies
  ELSE LongRunReplies

\* the worker-pool variant also sees its own timeout (AbortController)
PoolReplies ==
  IF Len(request.rawData.rows) <= 2 THEN Replies \cup {Timeout} ELSE Replies

\* the kinds of record of the longer runs: a plain record and the record
\* whose quantity is null
LongRunRecords ==
  {RawRecord(m1, Num(5, 1), u_kg, seg_RetailIndian, JsUndefined),
   RawRecord(m1, JsNull, u_kg, seg_NonRetail, JsUndefined)}

\* the kinds of record of the longer runs of the worker-pool variant: a
\* plain record and the record whose unit is a number
PoolLongRunRecords ==
  {RawRecord(m1, Num(5, 1), u_kg, seg_RetailIndian, JsUndefined),
   RawRecord(m1, Num(5, 1), NonString, seg_RetailIndian, JsUndefined)}

\* rawData arrays of up to MaxRecords rows; the id of a row is its position
RowSeqs ==
  UNION {[1..n -> IF n <= 2 THEN RunRecords ELSE LongRunRecords] : n \in 0..MaxRecords}

PoolRowSeqs ==
  UNION {[1..n -> IF n <= 2 THEN RunRecords ELSE PoolLongRunRecords] : n \in 0..MaxRecords}

WithIds(rows) == [p \in DOMAIN rows |-> [rows[p] EXCEPT !.id = p]]

RequestsOf(rowSeqs) ==
  {[sessionId |-> s, auditPrompt |-> a,
    rawData |-> [present |-> rp, rows |-> IF rp THEN WithIds(rows) ELSE <<>>],
    thresholdData |-> [present |-> tp, rows |-> IF tp THEN RunThresholds ELSE <<>>]] :
     s \in {"", "session-1"}, a \in {"", "audit prompt"},
     rp \in BOOLEAN, tp \in BOOLEAN, rows \in rowSeqs}

Requests == RequestsOf(RowSeqs)

PoolRequests == RequestsOf(PoolRowSeqs)

\* the App component before its first run, with an empty audit_sessions table
NoApp ==
  [pc |-> "idle", stage |-> "idle", sessionId |-> 0, captured |-> 0, session |-> 0,
   thrown |-> "", error |-> "", audit_sessions |-> <<>>]

NoProbe ==
  [record |-> RawRecord(m1, Num(0, 1), u_kg, NoString, JsUndefined),
   thresholdData |-> <<>>, done |-> FALSE,
   gateway |-> Threw, pool |-> Threw]

NoCall == [outcome |-> "none", thrown |-> "", reply |-> TransportError]

NoResponse == [sent |-> FALSE, success |-> FALSE, results |-> <<>>, error |-> ""]

Slot(state, attempt, verdict, result) ==
  [state |-> state, attempt |-> attempt, verdict |-> verdict, result |-> result]

Init ==
  /\ variant \in {"gateway", "pool"}
  /\ keySet \in BOOLEAN
  /\ request \in IF variant = "pool" THEN PoolRequests ELSE Requests
  /\ pc = "received"
  /\ i = 0
  /\ slots = <<>>
  /\ activePromises = 0
  /\ currentIndex = 0
  /\ resolved = FALSE
  /\ inflight = {}
  /\ auditResults = <<>>
  /\ response = NoResponse
  /\ classified = {}
  /\ llmIssued = 0
  /\ calls = [p \in DOMAIN request.rawData.rows |-> NoCall]
  /\ probe = NoProbe
  /\ unitNormalizationCache = {}
  /\ thresholdMapOfRun = NoMap
  /\ app = NoApp

rows == request.rawData.rows
thresholdData == request.thresholdData.rows

Min(a, b) == IF a < b THEN a ELSE b

\* rawData.slice(i, i + batchSize), as positions of rawData
batchPositions == (i + 1)..Min(i + batchSize, Len(rows))

\* --------------------------------------------------------------- actions
\* the validation without the sessionId test
missingFieldsNoSession(req) ==
  \/ req.auditPrompt = ""
  \/ ~req.rawData.present
  \/ ~req.thresholdData.present

\* lines 80-82 / 892-894: !sessionId || !auditPrompt || !rawData || !thresholdData
missingFields(req) ==
  \/ req.sessionId = ""
  \/ req.auditPrompt = ""
  \/ ~req.rawData.present
  \/ ~req.thresholdData.present

\* the key check left out
keyMissingNever(key) == FALSE

\* lines 64-69 / 885-888: the key check
keyMissing(key) == ~key

configMessage ==
  IF variant = "gateway"
  THEN "LLM_GATEWAY_KEY environment variable is not set. Please configure it in your Supabase Edge Function secrets."
  ELSE "LLM_GATEWAY_KEY is not configured"

\* lines 495-512 / 944-959: the top-level catch
ErrorResponse(message) ==
  [sent |-> TRUE, success |-> FALSE, results |-> <<>>, error |-> message]

\* lines 897-899: the cache is emptied at the start of a run once it holds
\* more than cacheLimit entries
clearedCache(cache) == IF Cardinality(cache) > cacheLimit THEN {} ELSE cache

\* lines 62-82 / 884-907: key check, body parse and validation; the
\* worker-pool variant then builds its thresholdMap
Serve ==
  /\ pc = "received"
  /\ IF keyMissing(keySet)
     THEN /\ response' = ErrorResponse(configMessage)
          /\ pc' = "responded"
     ELSE IF missingFields(request)
     THEN /\ response' = ErrorResponse("Missing required fields")
          /\ pc' = "responded"
     ELSE /\ pc' = "loop"
          /\ UNCHANGED response
  /\ IF variant = "pool" /\ ~keyMissing(keySet) /\ ~missingFields(request)
     THEN LET cache == clearedCache(unitNormalizationCache)
          IN  /\ thresholdMapOfRun' = thresholdMap(cache, thresholdData)
              /\ unitNormalizationCache' = cacheAfterRows(cache, thresholdData)
     ELSE UNCHANGED cacheVars
  /\ UNCHANGED <<variant, keySet, request, i, slots, activePromises, currentIndex,
                 resolved, inflight, auditResults, classified, llmIssued, calls, probe, app>>

\* lines 205-336: batch.map starts every handler of the batch; a handler
\* runs up to its fetch() or throws before it
StartBatch ==
  /\ variant = "gateway"
  /\ pc = "loop"
  /\ i < Len(rows)
  /\ LET index == thresholdsByMcat(thresholdData)
         verdictOf(p) == gatewayVerdict(rows[p], index)
         calling == {p \in batchPositions : ~verdictOf(p).threw}
     IN  /\ slots' = [p \in batchPositions |->
                        IF verdictOf(p).threw
                        THEN Slot("rejected", 0, Threw, NoResult)
                        ELSE Slot("pending", 0, verdictOf(p), NoResult)]
         /\ inflight' = inflight \cup calling
         /\ llmIssued' = llmIssued + Cardinality(calling)
  /\ classified' = classified \cup batchPositions
  /\ pc' = "batch"
  /\ UNCHANGED <<variant, keySet, request, i, activePromises, currentIndex, resolved,
                 auditResults, response, calls, probe, app, cacheVars>>

CallRecord(thrown, reply) ==
  [outcome |-> IF thrown = "" THEN "ok" ELSE "failed", thrown |-> thrown, reply |-> reply]

\* lines 337-472: the fetch() of one handler settles and the handler returns
\* the success result or the result of its catch block
LLMRespond(p, reply) ==
  /\ variant = "gateway"
  /\ p \in inflight
  /\ inflight' = inflight \ {p}
  /\ slots' = [slots EXCEPT ![p] =
                 Slot("fulfilled", 0, @.verdict,
                      AuditResult(rows[p], @.verdict,
                                  [gatewayAdvisory(reply) EXCEPT
                                     !.evaluation_rationale =
                                       gatewayRationale(rows[p], slots[p].verdict, reply)]))]
  /\ calls' = [calls EXCEPT ![p] = CallRecord(gatewayThrown(reply), reply)]
  /\ UNCHANGED <<variant, keySet, request, pc, i, activePromises, currentIndex, resolved,
                 auditResults, response, classified, llmIssued, probe, app, cacheVars>>

\* the results of a batch pushed from the last slot to the first
RECURSIVE resultsOfReversed(_, _, _)
resultsOfReversed(s, from, to) ==
  IF from > to THEN <<>> ELSE <<s[to].result>> \o resultsOfReversed(s, from, to - 1)

RECURSIVE resultsOf(_, _, _)
resultsOf(s, from, to) ==
  IF from > to THEN <<>> ELSE <<s[from].result>> \o resultsOf(s, from + 1, to)

\* the batch taken as complete as soon as one of its handlers returned
BatchCompleteEarly ==
  /\ variant = "gateway"
  /\ pc = "batch"
  /\ \E p \in DOMAIN slots : slots[p].state = "fulfilled"
  /\ \A p \in DOMAIN slots : slots[p].state # "rejected"
  /\ auditResults' = auditResults \o resultsOf(slots, i + 1, Min(i + batchSize, Len(rows)))
  /\ i' = i + batchSize
  /\ slots' = <<>>
  /\ pc' = "loop"
  /\ UNCHANGED <<variant, keySet, request, activePromises, currentIndex, resolved,
                 inflight, response, classified, llmIssued, calls, probe, app, cacheVars>>

\* lines 475-476: Promise.all fulfils, auditResults.push(...batchResults)
BatchComplete ==
  /\ variant = "gateway"
  /\ pc = "batch"
  /\ \A p \in DOMAIN slots : slots[p].state = "fulfilled"
  /\ auditResults' = auditResults \o resultsOf(slots, i + 1, Min(i + batchSize, Len(rows)))
  /\ i' = i + batchSize
  /\ slots' = <<>>
  /\ pc' = "loop"
  /\ UNCHANGED <<variant, keySet, request, activePromises, currentIndex, resolved,
                 inflight, response, classified, llmIssued, calls, probe, app, cacheVars>>

\* line 475 and lines 495-512: Promise.all rejects with the TypeError of a
\* handler and the top-level catch answers 500
BatchAbort ==
  /\ variant = "gateway"
  /\ pc = "batch"
  /\ \E p \in DOMAIN slots : slots[p].state = "rejected"
  /\ LET p == CHOOSE q \in DOMAIN slots :
                /\ slots[q].state = "rejected"
                /\ \A r \in DOMAIN slots : slots[r].state = "rejected" => q <= r
     IN  response' = ErrorResponse(IF gatewayThrows(rows[p], thresholdsByMcat(thresholdData))
                                   THEN throwMessage(rows[p])
                                   ELSE "Cannot read properties of null (reading 'toFixed')")
  /\ pc' = "responded"
  /\ UNCHANGED <<variant, keySet, request, i, slots, activePromises, currentIndex,
                 resolved, inflight, auditResults, classified, llmIssued, calls, probe, app, cacheVars>>

\* lines 479-494 / 935-943: the loop ended, the results are returned
Respond ==
  /\ pc = "loop"
  /\ i >= Len(rows)
  /\ response' = [sent |-> TRUE, success |-> TRUE, results |-> auditResults, error |-> ""]
  /\ pc' = "responded"
  /\ UNCHANGED <<variant, keySet, request, i, slots, activePromises, currentIndex,
                 resolved, inflight, auditResults, classified, llmIssued, calls, probe, app, cacheVars>>

\* ----------------------------------------------------------- worker pool
batchLen == Cardinality(batchPositions)

\* startNext that starts records only on its first call
startNextNoRefill(active, cur) ==
  LET k == Min(concurrencyLimit - active, batchLen - cur)
  IN  IF k > 0 /\ cur = 0 THEN (i + cur + 1)..(i + cur + k) ELSE {}

\* the while loop of startNext (lines 602-618): the positions it starts
\* when `active` promises are running and `cur` records were started
startNext(active, cur) ==
  LET k == Min(concurrencyLimit - active, batchLen - cur)
  IN  IF k > 0 THEN (i + cur + 1)..(i + cur + k) ELSE {}

\* lines 637-660: processRecord computes the verdict and getLLMAssessment
\* issues its first attempt
started(p, cache) ==
  IF poolThrows(rows[p]) THEN Slot("rejected", 0, Threw, NoResult)
  ELSE Slot("pending", 0, poolVerdict(rows[p], thresholdMapOfRun, cache), NoResult)

\* the started positions whose processRecord reached its fetch()
calling(launch) == {p \in launch : ~poolThrows(rows[p])}

\* a processRecord promise rejected and its catch and finally callbacks have
\* not run yet; they run before any fetch() or timer settles
rejectionPending == \E q \in DOMAIN slots : slots[q].state = "rejected"

\* the cache after processRecord normalized the unit of every position of
\* `launch` below position p
cacheBefore(launch, p) ==
  LET RECURSIVE after(_, _)
      after(cache, q) ==
        IF q >= p THEN cache
        ELSE after(IF q \in launch THEN cacheSet(cache, rows[q].quantity_unit) ELSE cache, q + 1)
  IN  after(unitNormalizationCache, 1)

\* lines 918-925 and 596-625: processBatch allocates results and calls startNext
PoolStartBatch ==
  /\ variant = "pool"
  /\ pc = "loop"
  /\ i < Len(rows)
  /\ LET launch == startNext(0, 0)
     IN  /\ slots' = [p \in batchPositions |->
                        IF p \in launch THEN started(p, cacheBefore(launch, p))
                        ELSE Slot("unstarted", 0, Threw, NoResult)]
         /\ activePromises' = Cardinality(launch)
         /\ currentIndex' = Cardinality(launch)
         /\ inflight' = inflight \cup calling(launch)
         /\ llmIssued' = llmIssued + Cardinality(calling(launch))
         /\ classified' = classified \cup launch
  /\ resolved' = FALSE
  /\ pc' = "batch"
  /\ unitNormalizationCache' = cacheBefore(startNext(0, 0), Len(rows) + 1)
  /\ UNCHANGED <<variant, keySet, request, i, auditResults, response, calls, probe, app,
                 thresholdMapOfRun>>

\* lines 782-833, 662-674 and 607-622: one attempt settles.  A successful
\* attempt, or the failure of the last attempt, makes processRecord resolve:
\* results[index] is stored, activePromises is decremented and startNext
\* runs.  An earlier failure goes to the backoff sleep.
PoolLLMRespond(p, reply) ==
  /\ variant = "pool"
  /\ p \in inflight
  /\ ~rejectionPending
  /\ LET thrown == attemptThrown(reply)
         attempt == slots[p].attempt
     IN  IF thrown = "" \/ attempt = retries
         THEN LET assessment == IF thrown = "" THEN attemptAssessment(reply)
                                ELSE exhaustedAssessment(thrown)
                  result == AuditResult(rows[p], slots[p].verdict, assessment)
                  launch == startNext(activePromises - 1, currentIndex)
              IN  /\ slots' = [q \in DOMAIN slots |->
                                 IF q = p THEN Slot("fulfilled", attempt, slots[p].verdict, result)
                                 ELSE IF q \in launch THEN started(q, cacheBefore(launch, q))
                                 ELSE slots[q]]
                  /\ activePromises' = activePromises - 1 + Cardinality(launch)
                  /\ currentIndex' = currentIndex + Cardinality(launch)
                  /\ inflight' = (inflight \ {p}) \cup calling(launch)
                  /\ llmIssued' = llmIssued + Cardinality(calling(launch))
                  /\ classified' = classified \cup launch
                  /\ resolved' = (activePromises' = 0 /\ currentIndex' = batchLen)
                  /\ calls' = [calls EXCEPT ![p] = CallRecord(thrown, reply)]
                  /\ unitNormalizationCache' = cacheBefore(launch, Len(rows) + 1)
         ELSE /\ slots' = [slots EXCEPT ![p].state = "backoff"]
              /\ inflight' = inflight \ {p}
              /\ UNCHANGED <<activePromises, currentIndex, llmIssued, classified,
                             resolved, calls, unitNormalizationCache>>
  /\ UNCHANGED <<variant, keySet, request, pc, i, auditResults, response, probe, app,
                 thresholdMapOfRun>>

\* lines 610-617: processRecord rejected; the catch callback stores
\* createErrorResult in results[index], the finally callback decrements
\* activePromises and runs startNext
PoolRecordFailed(p) ==
  /\ variant = "pool"
  /\ p \in DOMAIN slots
  /\ slots[p].state = "rejected"
  /\ LET launch == startNext(activePromises - 1, currentIndex)
     IN  /\ slots' = [q \in DOMAIN slots |->
                        IF q = p
                        THEN Slot("fulfilled", 0, Threw,
                                  createErrorResult(rows[p], throwMessage(rows[p])))
                        ELSE IF q \in launch THEN started(q, cacheBefore(launch, q))
                        ELSE slots[q]]
         /\ activePromises' = activePromises - 1 + Cardinality(launch)
         /\ currentIndex' = currentIndex + Cardinality(launch)
         /\ inflight' = inflight \cup calling(launch)
         /\ llmIssued' = llmIssued + Cardinality(calling(launch))
         /\ classified' = classified \cup launch
         /\ resolved' = (activePromises' = 0 /\ currentIndex' = batchLen)
         /\ unitNormalizationCache' = cacheBefore(launch, Len(rows) + 1)
  /\ UNCHANGED <<variant, keySet, request, pc, i, auditResults, response, calls, probe, app,
                 thresholdMapOfRun>>

\* line 835 and the next iteration of the attempt loop: the backoff sleep
\* ends and the next attempt is issued
PoolRetry(p) ==
  /\ variant = "pool"
  /\ p \in DOMAIN slots
  /\ slots[p].state = "backoff"
  /\ ~rejectionPending
  /\ slots' = [slots EXCEPT ![p].state = "pending", ![p].attempt = @ + 1]
  /\ inflight' = inflight \cup {p}
  /\ llmIssued' = llmIssued + 1
  /\ UNCHANGED <<variant, keySet, request, pc, i, activePromises, currentIndex, resolved,
                 auditResults, response, classified, calls, probe, app, cacheVars>>

\* lines 918-927: the promise of processBatch resolved, the results are pushed
PoolBatchComplete ==
  /\ variant = "pool"
  /\ pc = "batch"
  /\ resolved
  /\ auditResults' = auditResults \o resultsOf(slots, i + 1, Min(i + batchSize, Len(rows)))
  /\ i' = i + batchSize
  /\ slots' = <<>>
  /\ activePromises' = 0
  /\ currentIndex' = 0
  /\ resolved' = FALSE
  /\ pc' = "loop"
  /\ UNCHANGED <<variant, keySet, request, inflight, response, classified, llmIssued,
                 calls, probe, app, cacheVars>>

Next ==
  \/ Serve
  \/ StartBatch
  \/ \E p \in inflight, reply \in Replies : LLMRespond(p, reply)
  \/ BatchComplete
  \/ BatchAbort
  \/ Respond
  \/ PoolStartBatch
  \/ \E p \in inflight, reply \in PoolReplies : PoolLLMRespond(p, reply)
  \/ \E p \in DOMAIN slots : PoolRetry(p)
  \/ \E p \in DOMAIN slots : PoolRecordFailed(p)
  \/ PoolBatchComplete

Spec == Init /\ [][Next]_vars

\* ------------------------------------------------ worker pool on its own
\* The runs of the worker-pool variant.  Every processRecord call settles:
\* a pending fetch() is answered or times out, a backoff timer fires, and the
\* callbacks of a rejected promise run.
InitPool == Init /\ variant = "pool"

NextPool ==
  \/ Serve
  \/ PoolStartBatch
  \/ \E p \in inflight, reply \in PoolReplies : PoolLLMRespond(p, reply)
  \/ \E p \in DOMAIN slots : PoolRetry(p)
  \/ \E p \in DOMAIN slots : PoolRecordFailed(p)
  \/ PoolBatchComplete
  \/ Respond

SpecPool ==
  /\ InitPool
  /\ [][NextPool]_vars
  /\ WF_vars(\E p \in inflight, reply \in PoolReplies : PoolLLMRespond(p, reply))
  /\ WF_vars(\E p \in DOMAIN slots : PoolRetry(p))
  /\ WF_vars(\E p \in DOMAIN slots : PoolRecordFailed(p))

\* ------------------------------------------------- classifier on its own
ProbeUnits == {u_kg, <<"K","G"," ">>, u_tonne, u_g, u_piece, u_dozen, <<"b","o","x">>, NoString}
ProbeQuantities == {Num(0, 1), Num(1, 1), Num(10, 1), Num(12, 1), Num(1000, 1), JsNull, JsUndefined}
ProbeSegments == {seg_RetailIndian, seg_RETAIL_FOREIGN, seg_NonRetail, seg_RetailIndianSpace, NoString}
ProbeKeys == {JsUndefined, Num(0, 1), Num(1, 1), Num(2, 1)}
ProbeRecords ==
  {RawRecord(m, q, u, sg, k) :
     m \in {m1, m2}, q \in ProbeQuantities, u \in ProbeUnits, sg \in ProbeSegments, k \in ProbeKeys}

ProbeTables ==
  {<<>>,
   <<ThresholdEntry(m1, 10, u_kg)>>,
   <<ThresholdEntry(m1, 12, u_piece), ThresholdEntry(m1, 10, <<"K","g">>)>>,
   <<ThresholdEntry(m1, 1, u_tonne), ThresholdEntry(m3, 5, u_kg)>>,
   <<ThresholdEntry(m1, 0, u_liter)>>}

InitClassify ==
  /\ variant = "gateway"
  /\ keySet = TRUE
  /\ request = [sessionId |-> "", auditPrompt |-> "",
                rawData |-> [present |-> FALSE, rows |-> <<>>],
                thresholdData |-> [present |-> FALSE, rows |-> <<>>]]
  /\ pc = "classify"
  /\ i = 0
  /\ slots = <<>>
  /\ activePromises = 0
  /\ currentIndex = 0
  /\ resolved = FALSE
  /\ inflight = {}
  /\ auditResults = <<>>
  /\ response = NoResponse
  /\ classified = {}
  /\ llmIssued = 0
  /\ calls = <<>>
  /\ probe \in {[NoProbe EXCEPT !.record = r, !.thresholdData = t] :
                  r \in ProbeRecords, t \in ProbeTables}
  /\ unitNormalizationCache = {}
  /\ thresholdMapOfRun = NoMap
  /\ app = NoApp

\* both classifiers applied to the probe
Classify ==
  /\ pc = "classify"
  /\ ~probe.done
  /\ probe' = [probe EXCEPT
                 !.done = TRUE,
                 !.gateway = gatewayVerdict(probe.record, thresholdsByMcat(probe.thresholdData)),
                 !.pool = poolVerdict(probe.record,
                                      thresholdMap(unitNormalizationCache, probe.thresholdData),
                                      cacheAfterRows(unitNormalizationCache, probe.thresholdData))]
  /\ thresholdMapOfRun' = thresholdMap(unitNormalizationCache, probe.thresholdData)
  /\ unitNormalizationCache' =
       cacheSet(cacheAfterRows(unitNormalizationCache, probe.thresholdData),
                probe.record.quantity_unit)
  /\ UNCHANGED runVars

NextClassify == Classify

SpecClassify == InitClassify /\ [][NextClassify]_vars

\* ------------------------------------------- threshold resolution on its own
u_box == <<"b","o","x">>
u_KG_space == <<"K","G"," ">>

\* rows of a threshold sheet: two spellings of kg with different cutoffs,
\* other weight and count units, a unit of no category, a row without unit
\* and a row of another category
ResolveEntries ==
  {ThresholdEntry(m1, 10, u_kg), ThresholdEntry(m1, 20, u_KG_space),
   ThresholdEntry(m1, 1, u_tonne), ThresholdEntry(m1, 100, u_piece),
   ThresholdEntry(m1, 5, u_box), ThresholdEntry(m1, 7, NoString),
   ThresholdEntry(m2, 10, u_kg)}

ResolveTables == UNION {[1..n -> ResolveEntries] : n \in 0..MaxEntries}

ResolveUnits == {u_kg, <<"K","g">>, u_tonne, u_g, u_dozen, u_box, u_liter, NoString}

ResolveProbe(mcatId, auditUnit, sheet) ==
  [mcatId |-> mcatId, auditUnit |-> auditUnit, thresholdData |-> sheet,
   done |-> FALSE, found |-> NoThreshold, mapped |-> NoThreshold]

InitResolve ==
  /\ variant = "gateway"
  /\ keySet = TRUE
  /\ request = [sessionId |-> "", auditPrompt |-> "",
                rawData |-> [present |-> FALSE, rows |-> <<>>],
                thresholdData |-> [present |-> FALSE, rows |-> <<>>]]
  /\ pc = "resolve"
  /\ i = 0
  /\ slots = <<>>
  /\ activePromises = 0
  /\ currentIndex = 0
  /\ resolved = FALSE
  /\ inflight = {}
  /\ auditResults = <<>>
  /\ response = NoResponse
  /\ classified = {}
  /\ llmIssued = 0
  /\ calls = <<>>
  /\ probe \in {ResolveProbe(m, u, t) :
                  m \in {m1, m2, m3}, u \in ResolveUnits, t \in ResolveTables}
  /\ unitNormalizationCache = {}
  /\ thresholdMapOfRun = NoMap
  /\ app = NoApp

\* findThreshold of the gateway variant and the thresholdMap lookup of
\* processRecord, applied to the probe
Resolve ==
  /\ pc = "resolve"
  /\ ~probe.done
  /\ probe' = [probe EXCEPT
                 !.done = TRUE,
                 !.found = findThreshold(thresholdsByMcat(probe.thresholdData),
                                         probe.mcatId, probe.auditUnit),
                 !.mapped = thresholdMapGet(
                              thresholdMap(unitNormalizationCache, probe.thresholdData),
                              thresholdKey(cacheAfterRows(unitNormalizationCache,
                                                          probe.thresholdData),
                                           probe.mcatId, probe.auditUnit))]
  /\ thresholdMapOfRun' = thresholdMap(unitNormalizationCache, probe.thresholdData)
  /\ unitNormalizationCache' =
       cacheSet(cacheAfterRows(unitNormalizationCache, probe.thresholdData), probe.auditUnit)
  /\ UNCHANGED runVars

NextResolve == Resolve

SpecResolve == InitResolve /\ [][NextResolve]_vars

\* ------------------------------------------------ unit conversion on its own
ConvertUnits ==
  weightUnits \cup volumeUnits \cup lengthUnits \cup countUnits
    \cup {u_KG_space, u_box, NoString}

\* the values given to every pair of units, and larger and fractional
\* values given to the pairs of everyday units
ConvertValues == {Num(0, 1), Num(1, 1), Num(-1, 1), JsNull, JsUndefined}

ConvertEverydayUnits ==
  {u_g, u_kg, u_lb, u_ml, u_liter, u_gallon, u_cm, u_inch, u_foot, u_piece, u_dozen, u_box}

ConvertEverydayValues == {Num(5, 2), Num(12, 1), Num(1000, 1)}

ConvertProbe(value, fromUnit, toUnit) ==
  [value |-> value, fromUnit |-> fromUnit, toUnit |-> toUnit,
   step |-> 0, there |-> JsNaN, back |-> JsNaN]

InitConvert ==
  /\ variant = "gateway"
  /\ keySet = TRUE
  /\ request = [sessionId |-> "", auditPrompt |-> "",
                rawData |-> [present |-> FALSE, rows |-> <<>>],
                thresholdData |-> [present |-> FALSE, rows |-> <<>>]]
  /\ pc = "convert"
  /\ i = 0
  /\ slots = <<>>
  /\ activePromises = 0
  /\ currentIndex = 0
  /\ resolved = FALSE
  /\ inflight = {}
  /\ auditResults = <<>>
  /\ response = NoResponse
  /\ classified = {}
  /\ llmIssued = 0
  /\ calls = <<>>
  /\ probe \in {ConvertProbe(v, a, b) :
                  v \in ConvertValues, a \in ConvertUnits, b \in ConvertUnits}
               \cup {ConvertProbe(v, a, b) :
                       v \in ConvertEverydayValues,
                       a \in ConvertEverydayUnits, b \in ConvertEverydayUnits}
  /\ unitNormalizationCache = {}
  /\ thresholdMapOfRun = NoMap
  /\ app = NoApp

\* convertUnit(value, fromUnit, toUnit)
Convert ==
  /\ pc = "convert"
  /\ probe.step = 0
  /\ probe' = [probe EXCEPT
                 !.step = 1,
                 !.there = convertUnit(probe.value, probe.fromUnit, probe.toUnit)]
  /\ UNCHANGED <<runVars, cacheVars>>

\* convertUnit of the converted value, in the other direction
ConvertBack ==
  /\ pc = "convert"
  /\ probe.step = 1
  /\ probe' = [probe EXCEPT
                 !.step = 2,
                 !.back = convertUnit(probe.there, probe.toUnit, probe.fromUnit)]
  /\ UNCHANGED <<runVars, cacheVars>>

NextConvert == Convert \/ ConvertBack

SpecConvert == InitConvert /\ [][NextConvert]_vars

\* ------------------------------------- successive runs of the classifier
\* Runs of the worker-pool handler in one isolate share the module-level
\* unitNormalizationCache.  The probe is one record and one threshold sheet;
\* it is classified again and again, between runs on other sheets and
\* classifications of other records.
PurityUnits == {u_kg, u_KG_space, <<"K","g">>, u_tonne}

PurityRecords ==
  {RawRecord(m1, Num(5, 1), u, sg, JsUndefined) :
     u \in PurityUnits, sg \in {seg_RetailIndian, seg_NonRetail}}

PuritySheets ==
  {<<ThresholdEntry(m1, 10, <<"K","g">>)>>,
   <<ThresholdEntry(m1, 10, u_kg), ThresholdEntry(m1, 20, u_KG_space)>>,
   <<ThresholdEntry(m1, 100, u_piece), ThresholdEntry(m1, 1, u_tonne)>>}

PurityProbe(record, sheet) ==
  [record |-> record, thresholdData |-> sheet, count |-> 0,
   first |-> Threw, again |-> Threw, gatewayFirst |-> Threw, gatewayAgain |-> Threw]

InitPurity ==
  /\ variant = "pool"
  /\ keySet = TRUE
  /\ request = [sessionId |-> "session-1", auditPrompt |-> "audit prompt",
                rawData |-> [present |-> TRUE, rows |-> <<>>],
                thresholdData |-> [present |-> FALSE, rows |-> <<>>]]
  /\ pc = "purity"
  /\ i = 0
  /\ slots = <<>>
  /\ activePromises = 0
  /\ currentIndex = 0
  /\ resolved = FALSE
  /\ inflight = {}
  /\ auditResults = <<>>
  /\ response = NoResponse
  /\ classified = {}
  /\ llmIssued = 0
  /\ calls = <<>>
  /\ probe \in {PurityProbe(r, t) : r \in PurityRecords, t \in PuritySheets}
  /\ unitNormalizationCache = {}
  /\ thresholdMapOfRun = NoMap
  /\ app = NoApp

\* lines 896-907: a run on `sheet` starts: the cache is emptied if it grew
\* beyond its limit and the thresholdMap of the run is built
PurityRun(sheet) ==
  /\ pc = "purity"
  /\ LET cache == clearedCache(unitNormalizationCache)
     IN  /\ thresholdMapOfRun' = thresholdMap(cache, sheet)
         /\ unitNormalizationCache' = cacheAfterRows(cache, sheet)
  /\ request' = [request EXCEPT !.thresholdData = [present |-> TRUE, rows |-> sheet]]
  /\ UNCHANGED <<variant, keySet, pc, i, slots, activePromises, currentIndex, resolved,
                 inflight, auditResults, response, classified, llmIssued, calls, probe, app>>

\* lines 637-653 (and 209-268 of the gateway variant): a record of the run is
\* classified; the verdicts of the probe are kept
PurityClassify(record) ==
  /\ pc = "purity"
  /\ request.thresholdData.present
  /\ LET verdict == poolVerdict(record, thresholdMapOfRun, unitNormalizationCache)
         gateway == gatewayVerdict(record, thresholdsByMcat(thresholdData))
     IN  probe' =
           IF record = probe.record /\ thresholdData = probe.thresholdData
           THEN IF probe.count = 0
                THEN [probe EXCEPT !.count = 1, !.first = verdict, !.gatewayFirst = gateway]
                ELSE [probe EXCEPT !.count = 2, !.again = verdict, !.gatewayAgain = gateway]
           ELSE probe
  /\ unitNormalizationCache' = cacheSet(unitNormalizationCache, record.quantity_unit)
  /\ UNCHANGED <<runVars, thresholdMapOfRun>>

NextPurity ==
  \/ \E sheet \in PuritySheets : PurityRun(sheet)
  \/ \E record \in PurityRecords : PurityClassify(record)

SpecPurity == InitPurity /\ [][NextPurity]_vars

\* ----------------------------------------------------- the UI flow (App)
\* app.thrown is the step whose error the catch block received and app.error
\* the error state of the component, both naming the step that failed;
\* app.sessionId is the React state of the component; app.captured is the
\* sessionId constant of the render whose processAudit closure is running;
\* app.session is the row returned by the insert into audit_sessions (0: no
\* row); app.audit_sessions is the table, a row's id being its position.
SessionRow(status, message) == [status |-> status, error_message |-> message]

\* the awaited steps of processAudit that follow the creation of the session
StepsAfterSession ==
  <<"recordUpload", "thresholdUpload", "edgeFunction", "resultInsert", "readBack", "completion">>

StepAfter(step) ==
  StepsAfterSession[(CHOOSE k \in DOMAIN StepsAfterSession : StepsAfterSession[k] = step) + 1]

InitApp ==
  /\ variant = "gateway"
  /\ keySet = TRUE
  /\ request = [sessionId |-> "", auditPrompt |-> "",
                rawData |-> [present |-> FALSE, rows |-> <<>>],
                thresholdData |-> [present |-> FALSE, rows |-> <<>>]]
  /\ pc = "app"
  /\ i = 0
  /\ slots = <<>>
  /\ activePromises = 0
  /\ currentIndex = 0
  /\ resolved = FALSE
  /\ inflight = {}
  /\ auditResults = <<>>
  /\ response = NoResponse
  /\ classified = {}
  /\ llmIssued = 0
  /\ calls = <<>>
  /\ probe = NoProbe
  /\ unitNormalizationCache = {}
  /\ thresholdMapOfRun = NoMap
  /\ app = NoApp

AppUnchanged ==
  UNCHANGED <<variant, keySet, request, pc, i, slots, activePromises, currentIndex,
              resolved, inflight, auditResults, response, classified, llmIssued, calls,
              probe, unitNormalizationCache, thresholdMapOfRun>>

\* lines 31-40 and 270-271: the button is enabled in stage 'idle' with both
\* files chosen; the closure of processAudit holds the sessionId of its render
ProcessAudit ==
  /\ pc = "app"
  /\ app.pc = "idle"
  /\ app.stage = "idle"
  /\ app' = [app EXCEPT !.pc = "readFiles", !.stage = "uploading", !.error = "",
                         !.captured = app.sessionId, !.session = 0, !.thrown = ""]
  /\ AppUnchanged

\* lines 42-54: the files are read and parsed, or an error is thrown
ReadFiles(ok) ==
  /\ pc = "app"
  /\ app.pc = "readFiles"
  /\ app' = IF ok THEN [app EXCEPT !.pc = "createSession"]
            ELSE [app EXCEPT !.pc = "catch", !.thrown = app.pc]
  /\ AppUnchanged

\* lines 58-69: the session row is inserted with status 'uploading' and
\* setSessionId schedules the state of the next render
CreateSession(ok) ==
  /\ pc = "app"
  /\ app.pc = "createSession"
  /\ ok => Len(app.audit_sessions) < MaxSessions
  /\ app' = IF ok
            THEN [app EXCEPT !.pc = "recordUpload",
                             !.audit_sessions = Append(@, SessionRow("uploading", "")),
                             !.session = Len(app.audit_sessions) + 1,
                             !.sessionId = Len(app.audit_sessions) + 1]
            ELSE [app EXCEPT !.pc = "catch", !.thrown = app.pc]
  /\ AppUnchanged

\* lines 71-155: record upload, threshold upload, edge-function call, result
\* insert and read-back; each continues or throws
StepOfRun(ok) ==
  /\ pc = "app"
  /\ app.pc \in {"recordUpload", "thresholdUpload", "edgeFunction", "resultInsert", "readBack"}
  /\ app' = IF ok
            THEN [app EXCEPT !.pc = StepAfter(app.pc),
                             !.stage = IF app.pc = "thresholdUpload" THEN "processing" ELSE @]
            ELSE [app EXCEPT !.pc = "catch", !.thrown = app.pc]
  /\ AppUnchanged

\* lines 159-169: the session is updated to 'completed'
Complete ==
  /\ pc = "app"
  /\ app.pc = "completion"
  /\ app' = [app EXCEPT !.pc = "ended", !.stage = "completed",
                         !.audit_sessions[app.session].status = "completed"]
  /\ AppUnchanged

\* lines 170-184: the catch block updates the session named by the sessionId
\* of the closure, when that is not null
Catch ==
  /\ pc = "app"
  /\ app.pc = "catch"
  /\ app' = IF app.captured # 0
            THEN [app EXCEPT !.pc = "ended", !.stage = "error", !.error = app.thrown,
                             !.audit_sessions[app.captured] =
                               SessionRow("failed", app.thrown)]
            ELSE [app EXCEPT !.pc = "ended", !.stage = "error", !.error = app.thrown]
  /\ AppUnchanged

\* lines 187-198 and 309-313: 'New Audit' is offered in stage 'completed'
ResetApp ==
  /\ pc = "app"
  /\ app.pc = "ended"
  /\ app.stage = "completed"
  /\ app' = [app EXCEPT !.pc = "idle", !.stage = "idle", !.sessionId = 0, !.error = ""]
  /\ AppUnchanged

\* the page is loaded again: a new App with the initial state of lines 11-20
Reload ==
  /\ pc = "app"
  /\ app.pc = "ended"
  /\ app' = [NoApp EXCEPT !.audit_sessions = app.audit_sessions]
  /\ AppUnchanged

NextApp ==
  \/ ProcessAudit
  \/ \E ok \in BOOLEAN : ReadFiles(ok)
  \/ \E ok \in BOOLEAN : CreateSession(ok)
  \/ \E ok \in BOOLEAN : StepOfRun(ok)
  \/ Complete
  \/ Catch
  \/ ResetApp
  \/ Reload

SpecApp == InitApp /\ [][NextApp]_vars

\* ================================================================ claims
\* the request passed the key check and the validation
Validated ==
  /\ keySet
  /\ request.sessionId # ""
  /\ request.auditPrompt # ""
  /\ request.rawData.present
  /\ request.thresholdData.present

HasResult(p) ==
  \/ p <= Len(auditResults)
  \/ p \in DOMAIN slots /\ slots[p].state = "fulfilled"

\* the AuditResult of position p: pushed to auditResults, or still in the
\* promise of the running batch
ResultOf(p) == IF p <= Len(auditResults) THEN auditResults[p] ELSE slots[p].result

VerdictFields(r) ==
  <<r.indiamart_audit_outcome, r.indiamart_category, r.indiamart_reason,
    r.mcat_type, r.threshold_available, r.threshold_value>>

\* C1: every request that passes validation is answered with success and
\* exactly one AuditResult per input record: as many results as records, and
\* every record id is the raw_data_id of exactly one result, whatever the
\* advisory calls did.
C1_OneResultPerRecord ==
  (response.sent /\ Validated) =>
    /\ response.success
    /\ Len(response.results) = Len(rows)
    /\ \A p \in DOMAIN rows :
         Cardinality({k \in DOMAIN response.results :
                        response.results[k].raw_data_id = rows[p].id}) = 1

\* C2: the outcome, category, reason, mcat type, threshold availability and
\* threshold value of every result are the verdict computed from the record
\* and the threshold sheet alone, so two runs that differ only in what the
\* LLM calls did persist identical values.
C2_AdvisoryNeverOverrides ==
  \A p \in DOMAIN rows :
    HasResult(p) =>
      VerdictFields(ResultOf(p)) =
        VerdictFields(IF variant = "gateway"
                      THEN gatewayVerdict(rows[p], thresholdsByMcat(thresholdData))
                      ELSE IF poolThrows(rows[p])
                      THEN createErrorResult(rows[p], throwMessage(rows[p]))
                      ELSE poolVerdict(rows[p], thresholdMap({}, thresholdData), {}))

\* a returned result keeps verdict ERROR although the LLM answered Retail,
\* next to a result whose call failed
C2_Witness ==
  /\ response.success
  /\ \E k \in DOMAIN response.results :
       /\ response.results[k].llm_bl_type = "Retail"
       /\ response.results[k].indiamart_audit_outcome = "ERROR"
  /\ \E k \in DOMAIN response.results :
       /\ response.results[k].llm_bl_type = "Error"
       /\ response.results[k].indiamart_audit_outcome = "PASS"

\* C3: advisory failures are isolated per record.  Every record whose own
\* call succeeded has the normal advisory result built from its own reply,
\* and a run in which the call of some record failed does not abort: it is
\* answered with success and returns those normal results.
C3_AdvisoryFailureIsolated ==
  /\ \A p \in DOMAIN rows :
       calls[p].outcome = "ok" =>
         /\ HasResult(p)
         /\ ResultOf(p).llm_bl_type = OrDefault(calls[p].reply.bl_type, "Unknown")
         /\ ResultOf(p).llm_bl_type # "Error"
  /\ (response.sent /\ Validated /\ \E p \in DOMAIN rows : calls[p].outcome = "failed") =>
       /\ response.success
       /\ \A q \in DOMAIN rows :
            calls[q].outcome = "ok" => response.results[q] = ResultOf(q)

\* C4: whenever the advisory call of a record failed, the result of that
\* record has llm_bl_type "Error" and its llm_threshold_reason carries the
\* message of the error that was thrown.
C4_FailureBecomesErrorResult ==
  \A p \in DOMAIN rows :
    calls[p].outcome = "failed" =>
      /\ HasResult(p)
      /\ ResultOf(p).llm_bl_type = "Error"
      /\ calls[p].thrown # ""
      /\ ResultOf(p).llm_threshold_reason.message = calls[p].thrown

\* a returned result whose call got a 2xx body without choices
C4_Witness ==
  /\ response.success
  /\ \E p \in DOMAIN rows :
       /\ calls[p].outcome = "failed"
       /\ calls[p].reply = NoChoices
       /\ response.results[p].llm_bl_type = "Error"

\* C5: a request without sessionId, auditPrompt, rawData or thresholdData is
\* answered with one top-level error (success = false, no results), and no
\* record is classified and no LLM call is issued for it.
C5_ValidationBeforeProcessing ==
  (request.sessionId = "" \/ request.auditPrompt = ""
     \/ ~request.rawData.present \/ ~request.thresholdData.present) =>
    /\ classified = {}
    /\ llmIssued = 0
    /\ inflight = {}
    /\ pc \in {"received", "responded"}
    /\ response.sent =>
         (~response.success /\ response.results = <<>> /\ response.error # "")

\* the error response of a request that carries records but no sessionId
C5_Witness ==
  /\ response.sent
  /\ keySet
  /\ request.sessionId = ""
  /\ Len(rows) > 0
  /\ response.error = "Missing required fields"

\* C6: when the credential of the advisory call is not configured the run
\* ends with a top-level error, and no record is classified and no LLM call
\* is issued.
C6_ConfigurationBeforeProcessing ==
  ~keySet =>
    /\ classified = {}
    /\ llmIssued = 0
    /\ inflight = {}
    /\ pc \in {"received", "responded"}
    /\ response.sent =>
         (~response.success /\ response.results = <<>> /\ response.error # "")

\* the error response of a complete request when the key is not set
C6_Witness ==
  /\ response.sent
  /\ ~keySet
  /\ request.sessionId # "" /\ request.auditPrompt # ""
  /\ request.thresholdData.present
  /\ Len(rows) > 0
  /\ ~response.success

\* ---------------------------------------------- claims on the classifier
\* the segment labels of the probes that are marked Retail
RetailLabels == {seg_RetailIndian, seg_RETAIL_FOREIGN}

ProbeOverride == probe.record.business_mcat_key = Num(1, 1)

\* the rows of the probe's sheet for the record's category
ProbeCategoryRows ==
  {k \in DOMAIN probe.thresholdData :
     probe.thresholdData[k].fk_glcat_mcat_id = probe.record.fk_glcat_mcat_id}

OverrideVerdictOk(v) ==
  /\ ~v.threw
  /\ v.mcat_type = "Business MCAT"
  /\ IF probe.record.bl_segment \in RetailLabels
     THEN /\ v.indiamart_audit_outcome = "ERROR"
          /\ v.indiamart_category = "Retail Wrongly Marked"
     ELSE /\ v.indiamart_audit_outcome = "PASS"
          /\ v.indiamart_category = "Non-Retail Correctly Marked"
          /\ v.indiamart_reason = EmptyReason

\* C7: with business_mcat_key = 1 the verdict depends on the segment label
\* only: ERROR / "Retail Wrongly Marked" when the segment is marked Retail,
\* else PASS / "Non-Retail Correctly Marked" with an empty reason, for every
\* quantity, unit and threshold sheet.
C7_BusinessOverride ==
  (probe.done /\ ProbeOverride) =>
    (OverrideVerdictOk(probe.gateway) /\ OverrideVerdictOk(probe.pool))

\* an override record marked Retail, with a null quantity and a sheet
\* without any row
C7_Witness ==
  /\ probe.done
  /\ ProbeOverride
  /\ probe.record.bl_segment = seg_RETAIL_FOREIGN
  /\ probe.record.quantity = JsNull
  /\ probe.thresholdData = <<>>
  /\ probe.gateway.indiamart_category = "Retail Wrongly Marked"

MissingVerdictOk(v) ==
  /\ ~v.threw
  /\ v.indiamart_audit_outcome = "ERROR"
  /\ v.indiamart_category = "Threshold Not Available"
  /\ v.threshold_available = FALSE
  /\ v.threshold_value = NA

\* C8: without business override, a record whose category has no row in the
\* threshold sheet gets ERROR / "Threshold Not Available" with
\* threshold_available = false and threshold_value = "NA".
C8_ThresholdNotAvailable ==
  (probe.done /\ ~ProbeOverride /\ ProbeCategoryRows = {}) =>
    (MissingVerdictOk(probe.gateway) /\ MissingVerdictOk(probe.pool))

\* a record of category m2 against a sheet that has rows of other categories
C8_Witness ==
  /\ probe.done
  /\ ~ProbeOverride
  /\ probe.record.fk_glcat_mcat_id = m2
  /\ probe.thresholdData # <<>>
  /\ probe.gateway.indiamart_category = "Threshold Not Available"
  /\ probe.pool.indiamart_category = "Threshold Not Available"

\* the threshold the gateway variant resolves for the probe, and the
\* quantity converted to its unit
ProbeThreshold ==
  findThreshold(thresholdsByMcat(probe.thresholdData),
                probe.record.fk_glcat_mcat_id, probe.record.quantity_unit)
ProbeConverted ==
  convertUnit(probe.record.quantity, probe.record.quantity_unit, ProbeThreshold.gl_unit_name)

\* C9: the comparison with the cutoff is inclusive: without business
\* override, a record marked Retail whose converted quantity equals the
\* cutoff of the resolved threshold gets PASS / "Retail Correctly Marked".
C9_CutoffInclusive ==
  (/\ probe.done
   /\ ~ProbeOverride
   /\ ProbeThreshold # NoThreshold
   /\ ProbeConverted.t = "num"
   /\ ProbeConverted = ProbeThreshold.leap_retail_qty_cutoff
   /\ probe.record.bl_segment \in RetailLabels) =>
    /\ probe.gateway.indiamart_audit_outcome = "PASS"
    /\ probe.gateway.indiamart_category = "Retail Correctly Marked"

\* one dozen against a cutoff of 12 piece
C9_Witness ==
  /\ probe.done
  /\ ~ProbeOverride
  /\ probe.record.quantity = Num(1, 1)
  /\ probe.record.quantity_unit = u_dozen
  /\ ProbeThreshold = ThresholdEntry(m1, 12, u_piece)
  /\ probe.record.bl_segment = seg_RetailIndian
  /\ probe.gateway.indiamart_category = "Retail Correctly Marked"

\* convertedQuantity <= cutoff on the value the handler compares: a number,
\* null (compared as 0) or NaN / undefined (never <=)
WithinCutoff(q, cutoff) ==
  CASE q.t = "num" -> q.n * cutoff.d <= cutoff.n * q.d
    [] q.t = "null" -> 0 <= cutoff.n
    [] OTHER -> FALSE

TableVerdictOk(v, shouldBeRetail, markedRetail) ==
  /\ (v.indiamart_audit_outcome = "PASS") <=> (shouldBeRetail <=> markedRetail)
  /\ v.indiamart_audit_outcome \in {"PASS", "ERROR"}
  /\ v.indiamart_category =
       (CASE shouldBeRetail /\ markedRetail -> "Retail Correctly Marked"
          [] ~shouldBeRetail /\ ~markedRetail -> "Non-Retail Correctly Marked"
          [] shouldBeRetail /\ ~markedRetail -> "Non-Retail Wrongly Marked"
          [] OTHER -> "Retail Wrongly Marked")

\* the threshold the worker-pool variant resolves for the probe
ProbePoolThreshold ==
  thresholdMapGet(thresholdMap({}, probe.thresholdData),
                  thresholdKey({}, probe.record.fk_glcat_mcat_id, probe.record.quantity_unit))

\* C10: without business override and with a resolved threshold, the
\* verdict of every record follows the decision table on shouldBeRetail =
\* (convertedQuantity <= cutoff) and isMarkedRetail: PASS exactly when the
\* two agree, and the label is "Retail Correctly Marked", "Non-Retail
\* Correctly Marked", "Non-Retail Wrongly Marked" or "Retail Wrongly Marked"
\* accordingly.
C10_DecisionTable ==
  (probe.done /\ ~ProbeOverride) =>
    /\ ProbeThreshold # NoThreshold =>
         /\ ~probe.gateway.threw
         /\ TableVerdictOk(probe.gateway,
                           WithinCutoff(ProbeConverted, ProbeThreshold.leap_retail_qty_cutoff),
                           probe.record.bl_segment \in RetailLabels)
    /\ ProbePoolThreshold # NoThreshold =>
         TableVerdictOk(probe.pool,
                        WithinCutoff(convertUnit(probe.record.quantity,
                                                 probe.record.quantity_unit,
                                                 ProbePoolThreshold.gl_unit_name),
                                     ProbePoolThreshold.leap_retail_qty_cutoff),
                        probe.record.bl_segment \in RetailLabels)

\* --------------------------------------- claims on threshold resolution
\* positions of the probe's sheet that belong to the probe's category
CategoryPositions ==
  {k \in DOMAIN probe.thresholdData :
     probe.thresholdData[k].fk_glcat_mcat_id = probe.mcatId}

\* ... whose normalized unit equals the record's normalized unit
ExactPositions ==
  {k \in CategoryPositions :
     normalizeUnit(probe.thresholdData[k].gl_unit_name) = normalizeUnit(probe.auditUnit)}

\* ... whose unit has the dimensional category of the record's unit
DimensionPositions ==
  {k \in CategoryPositions :
     /\ getUnitCategory(probe.auditUnit) # NoCategory
     /\ getUnitCategory(probe.thresholdData[k].gl_unit_name) = getUnitCategory(probe.auditUnit)}

First(S) == CHOOSE k \in S : \A j \in S : k <= j

\* C11: whenever the category has an entry whose normalized unit equals the
\* record's normalized unit, findThreshold returns the first such entry in
\* insertion order, also when an earlier entry of the category only shares
\* the dimensional category of the record's unit.
C11_ExactUnitPreferred ==
  (probe.done /\ ExactPositions # {}) =>
    probe.found = probe.thresholdData[First(ExactPositions)]

\* tonne row first, then two spellings of kg: a kg record gets the first kg row
C11_Witness ==
  /\ probe.done
  /\ probe.mcatId = m1
  /\ probe.auditUnit = <<"K","g">>
  /\ probe.thresholdData = <<ThresholdEntry(m1, 1, u_tonne), ThresholdEntry(m1, 20, u_KG_space),
                             ThresholdEntry(m1, 10, u_kg)>>
  /\ probe.found = ThresholdEntry(m1, 20, u_KG_space)

\* C12: when no entry of the category has the record's normalized unit,
\* resolution returns the first entry in insertion order whose unit shares
\* the dimensional category of the record's unit (entries in kg and piece,
\* record unit tonne: the kg entry, in either order), in the findThreshold
\* variant and in the thresholdMap lookup of processRecord.
C12_DimensionFallback ==
  (probe.done /\ ExactPositions = {} /\ DimensionPositions # {}) =>
    /\ probe.found = probe.thresholdData[First(DimensionPositions)]
    /\ probe.mapped = probe.thresholdData[First(DimensionPositions)]

\* C13: resolution returns null exactly when the category has no entry; with
\* entries of which none matches by unit or by dimensional category it
\* returns the first entry of the category, in the findThreshold variant and
\* in the thresholdMap lookup of processRecord.
C13_NullIffNoEntries ==
  probe.done =>
    /\ (probe.found = NoThreshold) <=> (CategoryPositions = {})
    /\ (probe.mapped = NoThreshold) <=> (CategoryPositions = {})
    /\ (CategoryPositions # {} /\ ExactPositions = {} /\ DimensionPositions = {}) =>
         /\ probe.found = probe.thresholdData[First(CategoryPositions)]
         /\ probe.mapped = probe.thresholdData[First(CategoryPositions)]

\* ------------------------------------------- claims on unit conversion
\* the dimensional category of a unit, from the unit lists of the spec
DimensionOf(unit) ==
  LET n == normalizeUnit(unit)
  IN  CASE n \in {u_mg, u_g, u_kg, u_tonne, u_lbs, u_lb, u_oz, u_ounce} -> "weight"
        [] n \in {u_ml, u_l, u_liter, u_litre, u_gallon, u_pint, u_cc} -> "volume"
        [] n \in {u_mm, u_cm, u_m, u_km, u_inch, u_foot, u_yard, u_mile} -> "length"
        [] n \in {u_piece, u_pieces, u_unit, u_units, u_dozen, u_count} -> "count"
        [] OTHER -> "unknown"

\* C14: for every number v and every two units A and B of the same
\* dimensional category, convert(convert(v, A, B), B, A) is v.
C14_ConvertRoundTrip ==
  (/\ probe.step = 2
   /\ probe.value.t = "num"
   /\ DimensionOf(probe.fromUnit) # "unknown"
   /\ DimensionOf(probe.fromUnit) = DimensionOf(probe.toUnit)) =>
    probe.back = probe.value

\* two and a half gallons to liters (9.463525) and back
C14_Witness ==
  /\ probe.step = 2
  /\ probe.value = Num(5, 2)
  /\ probe.fromUnit = u_gallon
  /\ probe.toUnit = u_liter
  /\ probe.there = Num(378541, 40000)
  /\ probe.back = Num(5, 2)

\* C15: convert returns its input value unchanged when the two normalized
\* units are equal, when the dimensional category of either unit is unknown
\* and when the two categories differ; it has a result for every input.
C15_ConvertNoOp ==
  (/\ probe.step >= 1
   /\ \/ normalizeUnit(probe.fromUnit) = normalizeUnit(probe.toUnit)
      \/ DimensionOf(probe.fromUnit) = "unknown"
      \/ DimensionOf(probe.toUnit) = "unknown"
      \/ DimensionOf(probe.fromUnit) # DimensionOf(probe.toUnit)) =>
    probe.there = probe.value

\* kg to liter leaves the value as it is
C15_Witness ==
  /\ probe.step = 1
  /\ probe.value = Num(5, 2)
  /\ probe.fromUnit = u_kg
  /\ probe.toUnit = u_liter
  /\ probe.there = Num(5, 2)

\* ------------------------------------------------- claims on purity
\* C16: the classifier is a pure function: whenever the same record is
\* classified again against the same threshold sheet, after any runs on
\* other sheets, classifications of other records and cache clears, the
\* verdict (outcome, category, reason, mcat type, threshold availability,
\* threshold display) is identical to the first one, in both variants.
C16_ClassifierPure ==
  probe.count = 2 =>
    /\ VerdictFields(probe.again) = VerdictFields(probe.first)
    /\ probe.again.threw = probe.first.threw
    /\ VerdictFields(probe.gatewayAgain) = VerdictFields(probe.gatewayFirst)
    /\ probe.gatewayAgain.threw = probe.gatewayFirst.threw

\* a record in "KG " classified twice against the Kg sheet, the second time
\* with its unit and the units of another sheet in the cache
C16_Witness ==
  /\ probe.count = 2
  /\ probe.record.quantity_unit = u_KG_space
  /\ probe.thresholdData = <<ThresholdEntry(m1, 10, <<"K","g">>)>>
  /\ \E e \in unitNormalizationCache : e.key = u_KG_space /\ e.value = u_kg
  /\ \E e \in unitNormalizationCache : e.key = u_piece
  /\ probe.first.threshold_available
  /\ probe.again = probe.first

\* ------------------------------------ claims on batching and retries
\* C17: in every state of a run the number of advisory calls in flight is at
\* most the per-batch concurrency limit.
C17_InFlightBounded == Cardinality(inflight) <= concurrencyLimit

\* C18: batches are separated by a barrier.  Every call in flight belongs
\* to the current batch, no record of a later batch was classified or
\* called, the results of all earlier batches are in auditResults with the
\* outcome of their calls (no call for a record whose processRecord
\* rejected), and between two batches no call is in flight.
C18_BatchBarrier ==
  /\ inflight \subseteq batchPositions
  /\ classified \subseteq 1..Min(i + batchSize, Len(rows))
  /\ pc = "loop" => (inflight = {} /\ slots = <<>>)
  /\ pc \in {"loop", "batch"} =>
       /\ Len(auditResults) = Min(i, Len(rows))
       /\ \A p \in 1..Len(auditResults) :
            /\ auditResults[p].raw_data_id = p
            /\ calls[p].outcome \in {"ok", "failed", "none"}
            /\ calls[p].outcome = "none" <=> (variant = "pool" /\ poolThrows(rows[p]))
            /\ (auditResults[p].llm_bl_type = "Error") <=> (calls[p].outcome # "ok")

\* the second batch of a gateway run is in flight after a first batch in
\* which one call failed
C18_Witness ==
  /\ variant = "gateway"
  /\ pc = "batch"
  /\ i = batchSize
  /\ inflight # {}
  /\ Len(auditResults) = batchSize
  /\ \E p \in 1..batchSize : calls[p].outcome = "failed"

\* C19: getLLMAssessment with retries = r issues at most r + 1 calls for a
\* record, issues no call after the attempt that succeeded or after the
\* last failure, and never rejects: after r + 1 failed attempts it resolves
\* with the Error assessment.  A processRecord that rejects does so before it
\* calls getLLMAssessment.
C19_RetriesBounded ==
  variant = "pool" =>
    /\ llmIssued <= (retries + 1) * Cardinality(classified)
    /\ \A p \in DOMAIN slots :
         /\ slots[p].state \in {"unstarted", "pending", "backoff", "fulfilled", "rejected"}
         /\ slots[p].attempt \in 0..retries
         /\ slots[p].state = "backoff" => slots[p].attempt < retries
         /\ slots[p].state = "rejected" => (poolThrows(rows[p]) /\ p \notin inflight)
         /\ slots[p].state = "fulfilled" =>
              /\ p \notin inflight
              /\ calls[p].outcome = "none" <=> poolThrows(rows[p])
              /\ calls[p].outcome \in {"ok", "failed", "none"}
              /\ calls[p].outcome = "failed" =>
                   /\ slots[p].attempt = retries
                   /\ slots[p].result.llm_bl_type = "Error"
                   /\ slots[p].result.llm_threshold_reason.attempts = retries + 1
              /\ calls[p].outcome = "ok" => slots[p].result.llm_bl_type # "Error"

\* a record whose three attempts failed, the last one by the timeout
C19_Witness ==
  /\ variant = "pool"
  /\ response.success
  /\ Len(rows) = 1
  /\ llmIssued = retries + 1
  /\ calls[1].outcome = "failed"
  /\ calls[1].reply = Timeout
  /\ response.results[1].llm_bl_type = "Error"

\* -------------------------------------- claims on the variants
\* C20: for every record and every threshold sheet the worker-pool variant
\* (thresholdMap lookup and calculateIndiamartAudit) and the findThreshold /
\* convertUnit variant produce the same outcome, category label,
\* threshold_available and threshold_value.
C20_VariantsAgree ==
  probe.done =>
    /\ ~probe.gateway.threw
    /\ probe.pool.indiamart_audit_outcome = probe.gateway.indiamart_audit_outcome
    /\ probe.pool.indiamart_category = probe.gateway.indiamart_category
    /\ probe.pool.threshold_available = probe.gateway.threshold_available
    /\ probe.pool.threshold_value = probe.gateway.threshold_value

\* ------------------------------------------- claims on the factor tables
\* the factor of a unit in the table of its dimensional category
FactorOf(unit) ==
  LET u == trim(toLowerCase(unit))
  IN  CASE u \in DOMAIN weightConversions -> weightConversions[u]
        [] u \in DOMAIN volumeConversions -> volumeConversions[u]
        [] u \in DOMAIN lengthConversions -> lengthConversions[u]
        [] OTHER -> countConversions[u]

\* the probe converts between two different units of one dimension
ProbeWithinDimension ==
  /\ pc = "convert"
  /\ probe.step >= 1
  /\ probe.value.t \in {"num", "null"}
  /\ DimensionOf(probe.fromUnit) # "unknown"
  /\ DimensionOf(probe.fromUnit) = DimensionOf(probe.toUnit)
  /\ trim(toLowerCase(probe.fromUnit)) # trim(toLowerCase(probe.toUnit))

ProbeIs(value, fromUnit, toUnit) ==
  /\ pc = "convert"
  /\ probe.step >= 1
  /\ probe.value = value
  /\ probe.fromUnit = fromUnit
  /\ probe.toUnit = toUnit

\* C21: for two different units of the same dimensional category the
\* converted value is value * factor(from) / factor(to) with the fixed factor
\* tables; 1 tonne is 1000 kg, 1 dozen is 12 piece and 1 km is 1000 m.
C21_FactorFormula ==
  /\ ProbeWithinDimension =>
       probe.there = JsDiv(JsMul(probe.value, FactorOf(probe.fromUnit)),
                           FactorOf(probe.toUnit))
  /\ ProbeIs(Num(1, 1), u_tonne, u_kg) => probe.there = Num(1000, 1)
  /\ ProbeIs(Num(1, 1), u_dozen, u_piece) => probe.there = Num(12, 1)
  /\ ProbeIs(Num(1, 1), u_km, u_m) => probe.there = Num(1000, 1)

\* 12 inch were converted to foot and the result is 1
C21_Witness ==
  /\ ProbeWithinDimension
  /\ ProbeIs(Num(12, 1), u_inch, u_foot)
  /\ probe.there = Num(1, 1)

\* ------------------------------------------ claims on the threshold index
\* the rows of the probed sheet that belong to category m, in input order
RowsOfCategory(m) ==
  SelectSeq(probe.thresholdData, LAMBDA t : t.fk_glcat_mcat_id = m)

\* the entries thresholdsByMcat holds for category m
IndexedRows(m) ==
  LET index == thresholdsByMcat(probe.thresholdData)
  IN  IF m \in DOMAIN index THEN [k \in DOMAIN index[m] |-> index[m][k].threshold]
      ELSE <<>>

\* thresholdsByMcat: every entry is under its own category, and the entries
\* of a category are its rows, once each and in input order
ByMcatHoldsEveryRow ==
  LET index == thresholdsByMcat(probe.thresholdData)
  IN  /\ \A m \in DOMAIN index : \A k \in DOMAIN index[m] :
           index[m][k].threshold.fk_glcat_mcat_id = m
      /\ \A m \in {m1, m2, m3} : IndexedRows(m) = RowsOfCategory(m)

\* the thresholdMap of the run: every entry is under a key of its own
\* category, and a category has as many entries as it has rows
MapHoldsEveryRow ==
  /\ \A key \in DOMAIN thresholdMapOfRun :
       LET m == thresholdMapOfRun[key].fk_glcat_mcat_id
       IN  /\ Len(key) > Len(m)
           /\ SubSeq(key, 1, Len(m) + 1) = m \o <<"_">>
  /\ \A m \in {m1, m2, m3} :
       Cardinality({key \in DOMAIN thresholdMapOfRun :
                      thresholdMapOfRun[key].fk_glcat_mcat_id = m})
         = Len(RowsOfCategory(m))

\* C22: after the index is built from any threshold table, every entry
\* stored under a category key has that category id, and every input row
\* appears in the index under its category exactly once, in input order.
C22_IndexHoldsEveryRow ==
  (pc = "resolve" /\ probe.done) => (ByMcatHoldsEveryRow /\ MapHoldsEveryRow)

\* -------------------------------------------- claims on the result fields
AdvisoryTypes == {"Retail", "Non-Retail", "Unknown", "Error"}

\* C23: in every AuditResult, for every reply the LLM can give, the advisory
\* type llm_bl_type is one of Retail, Non-Retail, Unknown, Error.
C23_AdvisoryTypeInEnum ==
  \A p \in DOMAIN rows : HasResult(p) => ResultOf(p).llm_bl_type \in AdvisoryTypes

HasPrecedenceStatement(r) ==
  \E k \in DOMAIN r.evaluation_rationale :
    r.evaluation_rationale[k] \in {precedenceLine("PASS"), precedenceLine("ERROR")}

\* C24: for every record, on every verdict path and whether the advisory
\* call succeeded or failed, the composed narrative evaluation_rationale
\* contains the concluding statement that the deterministic verdict takes
\* precedence.
C24_NarrativeStatesPrecedence ==
  \A p \in DOMAIN rows : HasResult(p) => HasPrecedenceStatement(ResultOf(p))

\* --------------------------------------- claims on malformed quantities
\* the probed record with quantity 0
ProbeWithZeroQuantity == [probe.record EXCEPT !.quantity = Num(0, 1)]

SameVerdict(v, w) ==
  /\ v.threw = w.threw
  /\ v.mcat_type = w.mcat_type
  /\ v.indiamart_audit_outcome = w.indiamart_audit_outcome
  /\ v.indiamart_category = w.indiamart_category
  /\ v.threshold_available = w.threshold_available
  /\ v.threshold_value = w.threshold_value

\* C25: a record whose quantity is missing or not a number is classified
\* exactly as the same record with quantity 0 would be, and the classifier
\* does not fail on it.
C25_MalformedQuantityIsZero ==
  (pc = "classify" /\ probe.done /\ probe.record.quantity.t # "num") =>
    /\ ~probe.gateway.threw
    /\ SameVerdict(probe.gateway,
                   gatewayVerdict(ProbeWithZeroQuantity,
                                  thresholdsByMcat(probe.thresholdData)))
    /\ SameVerdict(probe.pool,
                   poolVerdict(ProbeWithZeroQuantity,
                               thresholdMap({}, probe.thresholdData), {}))

\* ------------------------------------------------- claims on the cache
\* C26: after any sequence of requests and normalizeUnit calls, the number of
\* entries of the unit-normalization cache never exceeds the size threshold.
C26_CacheBounded == Cardinality(unitNormalizationCache) <= cacheLimit

\* ------------------------------------------------ claims on the result set
\* C27: the k-th AuditResult has raw_data_id equal to the id of the k-th
\* input record, in the results of the running batch, in auditResults and in
\* the response, whatever the order in which the advisory calls completed.
C27_ResultsInInputOrder ==
  /\ \A p \in DOMAIN slots :
       slots[p].state = "fulfilled" => slots[p].result.raw_data_id = rows[p].id
  /\ Len(auditResults) <= Len(rows)
  /\ \A k \in DOMAIN auditResults : auditResults[k].raw_data_id = rows[k].id
  /\ \A k \in DOMAIN response.results : response.results[k].raw_data_id = rows[k].id

\* the worker pool finished the record of a batch it started on a refill,
\* while the first is still waiting for its advisory call
C27_Witness ==
  /\ variant = "pool"
  /\ pc = "batch"
  /\ i = 0
  /\ concurrencyLimit + 1 \in DOMAIN slots
  /\ slots[concurrencyLimit + 1].state = "fulfilled"
  /\ slots[concurrencyLimit + 1].result.raw_data_id = rows[concurrencyLimit + 1].id
  /\ slots[1].state = "pending"

VerdictLabels ==
  {"Retail Correctly Marked", "Non-Retail Correctly Marked",
   "Retail Wrongly Marked", "Non-Retail Wrongly Marked", "Threshold Not Available"}

ConsistentVerdict(r) ==
  /\ r.indiamart_category \in VerdictLabels
  /\ r.indiamart_audit_outcome = "PASS" <=>
       r.indiamart_category \in {"Retail Correctly Marked", "Non-Retail Correctly Marked"}

\* C28: every AuditResult produced by any path (normal result, advisory-error
\* result, createErrorResult of the worker pool) has one of the five labels
\* as indiamart_category, and outcome PASS exactly when the label is "Retail
\* Correctly Marked" or "Non-Retail Correctly Marked".
C28_VerdictConsistent ==
  \A p \in DOMAIN rows : HasResult(p) => ConsistentVerdict(ResultOf(p))

\* ------------------------------------------------- claims on processBatch
\* the slots of the running batch whose record was started
StartedSlots == {p \in DOMAIN slots : slots[p].state # "unstarted"}

\* the started records whose processRecord has not settled
UnsettledSlots == {p \in DOMAIN slots : slots[p].state \in {"pending", "backoff", "rejected"}}

\* records are started in order, each once: the started slots are the first
\* currentIndex positions of the batch, the unsettled ones are counted by
\* activePromises, and the promise is resolved only with every slot filled
BatchBookkeeping ==
  (variant = "pool" /\ pc = "batch") =>
    /\ DOMAIN slots = batchPositions
    /\ StartedSlots = (i + 1)..(i + currentIndex)
    /\ activePromises = Cardinality(UnsettledSlots)
    /\ resolved => \A p \in DOMAIN slots :
                     /\ slots[p].state = "fulfilled"
                     /\ slots[p].result.raw_data_id = rows[p].id

\* C29: provided every processRecord call settles, the promise of
\* processBatch resolves, and it resolves only when every slot of the result
\* array is filled, each record having been started exactly once.
C29_BatchTerminates ==
  /\ []BatchBookkeeping
  /\ (variant = "pool" /\ pc = "batch") ~> resolved

\* a batch longer than the concurrency limit resolved with a stored
\* createErrorResult among its results
C29_Witness ==
  /\ variant = "pool"
  /\ pc = "batch"
  /\ resolved
  /\ Cardinality(DOMAIN slots) > concurrencyLimit
  /\ \E p \in DOMAIN slots : slots[p].result.llm_threshold_reason.message = throwMessage(rows[p])
  /\ \E p \in DOMAIN slots : calls[p].outcome = "ok"

\* ---------------------------------------------------- claims on the UI flow
\* C30: whenever a step of processAudit fails after the session row was
\* created, the stored session is updated to 'failed' with the error
\* message: no session is left in status 'uploading' after its run ended in
\* error.
C30_FailedSessionMarked ==
  (pc = "app" /\ app.pc = "ended" /\ app.stage = "error" /\ app.session # 0) =>
    /\ app.audit_sessions[app.session].status = "failed"
    /\ app.audit_sessions[app.session].error_message = app.error

====
